---- MODULE Spec2Model ----
(***************************************************************************)
(* gcp-agentor: the ACP message contract, the handler registry, the        *)
(* session store, the reasoning log, the invocation gateway and the        *)
(* router / orchestrator, as a state machine.                              *)
(*                                                                         *)
(* Python strings that the code takes apart (from_id, the message text,    *)
(* the language tag, caller ids) are sequences of one-character strings;   *)
(* strings that are only compared (intents, handler names, step labels)    *)
(* are TLA+ strings.  A Python dict is a function whose DOMAIN is its key  *)
(* set; a dict whose key order matters is a sequence of <<key, value>>.    *)
(***************************************************************************)
EXTENDS Integers, Sequences, FiniteSets, TLC

(* ------------------------------------------------------------------ *)
(* Bounds of the model                                                 *)
(* ------------------------------------------------------------------ *)
MaxTime == 1      \* the clock runs 0..MaxTime
MaxReq == 1       \* route / handle_message calls per behaviour
MaxSetup == 2     \* registry, routing-table and session-store calls per behaviour
MaxAppends == 105 \* add_conversation_message calls made in a row

(* ------------------------------------------------------------------ *)
(* Python helpers                                                      *)
(* ------------------------------------------------------------------ *)
\* dict.get / {**a, **b} / d[k] = v on dicts modelled as functions
EmptyDict == [k \in {} |-> 0]

DictPut(d, key, val) ==
    [k \in DOMAIN d \cup {key} |-> IF k = key THEN val ELSE d[k]]

DictMerge(a, b) ==
    [k \in DOMAIN a \cup DOMAIN b |-> IF k \in DOMAIN b THEN b[k] ELSE a[k]]

DictDrop(d, key) == [k \in DOMAIN d \ {key} |-> d[k]]

\* insertion-ordered dicts (registry tables): sequences of <<key, value>>
OKeys(od) == [i \in 1..Len(od) |-> od[i][1]]

OHas(od, key) == \E i \in 1..Len(od) : od[i][1] = key

OGet(od, key) == od[CHOOSE i \in 1..Len(od) : od[i][1] = key][2]

OSet(od, key, val) ==
    IF OHas(od, key)
    THEN [i \in 1..Len(od) |-> IF od[i][1] = key THEN <<key, val>> ELSE od[i]]
    ELSE Append(od, <<key, val>>)

ODel(od, key) == SelectSeq(od, LAMBDA e : e[1] # key)

\* [f(x) for x in s if p(x)]
RECURSIVE FilterSeq(_, _)
FilterSeq(s, keep) ==
    IF s = << >> THEN << >>
    ELSE (IF Head(s) \in keep THEN <<Head(s)>> ELSE << >>) \o FilterSeq(Tail(s), keep)

SeqRange(s) == {s[i] : i \in 1..Len(s)}

\* str.startswith, str.lower and the substring test `kw in text`
StartsWith(cs, prefix) ==
    /\ Len(cs) >= Len(prefix)
    /\ SubSeq(cs, 1, Len(prefix)) = prefix

LowerChar(c) ==
    LET upper == <<"A", "B", "C", "D", "E", "F", "G", "H", "I", "J", "K", "L", "M",
                   "N", "O", "P", "Q", "R", "S", "T", "U", "V", "W", "X", "Y", "Z">>
        lower == <<"a", "b", "c", "d", "e", "f", "g", "h", "i", "j", "k", "l", "m",
                   "n", "o", "p", "q", "r", "s", "t", "u", "v", "w", "x", "y", "z">>
    IN  IF \E i \in 1..26 : upper[i] = c
        THEN lower[CHOOSE i \in 1..26 : upper[i] = c]
        ELSE c

Lower(cs) == [i \in 1..Len(cs) |-> LowerChar(cs[i])]

Contains(cs, kw) ==
    \E i \in 0..(Len(cs) - Len(kw)) : SubSeq(cs, i + 1, i + Len(kw)) = kw

(* ------------------------------------------------------------------ *)
(* ACP message (acp.py)                                                *)
(* ------------------------------------------------------------------ *)
\* A field of the input record: tag "absent" (key not in the dict), "none"
\* (None), "ok" (a value of the documented type, in val) or "bad" (a value of
\* another type: an int where a str is expected, a str where a dict is).
Absent(dflt) == [tag |-> "absent", val |-> dflt]
NoneF(dflt) == [tag |-> "none", val |-> dflt]
BadF(dflt) == [tag |-> "bad", val |-> dflt]
Ok(v) == [tag |-> "ok", val |-> v]

EnUS == <<"e", "n", "-", "U", "S">>

SessionName(t) == <<"session_0", "session_1", "session_2", "session_3", "session_4">>[t + 1]

\* cls(**data): a required key that is missing raises TypeError
FromDictRaises(data) ==
    \E f \in {"from_id", "to_id", "intent", "message"} : data[f].tag = "absent"

\* seeded fault: the timestamp and the session id made anew whatever is given
FromDict_Regenerated(data, t) ==
    [from_id |-> data.from_id,
     to_id |-> data.to_id,
     intent |-> data.intent,
     message |-> data.message,
     language |-> IF data.language.tag = "absent" THEN Ok(EnUS) ELSE data.language,
     context |-> IF data.context.tag \in {"absent", "none"} THEN Ok(EmptyDict)
                 ELSE data.context,
     timestamp |-> Ok(t),
     session_id |-> Ok(SessionName(t))]

\* the dataclass defaults, then __post_init__
FromDict(data, t) ==
    [from_id |-> data.from_id,
     to_id |-> data.to_id,
     intent |-> data.intent,
     message |-> data.message,
     language |-> IF data.language.tag = "absent" THEN Ok(EnUS) ELSE data.language,
     context |-> IF data.context.tag \in {"absent", "none"} THEN Ok(EmptyDict)
                 ELSE data.context,
     timestamp |-> IF data.timestamp.tag \in {"absent", "none"} THEN Ok(t)
                   ELSE data.timestamp,
     session_id |-> IF data.session_id.tag \in {"absent", "none"} THEN Ok(SessionName(t))
                    ELSE data.session_id]

\* seeded fault: a validation that skips the language check
IsValid_NoLanguageCheck(m) ==
    /\ \A f \in {"from_id", "to_id", "intent", "message"} : m[f].tag # "none"
    /\ m.context.tag # "bad"

\* seeded fault: an empty intent taken for a missing one
IsValid_IntentRequired(m) ==
    /\ \A f \in {"from_id", "to_id", "intent", "message"} : m[f].tag # "none"
    /\ m.intent.val # ""
    /\ m.language.tag = "ok" /\ Len(m.language.val) >= 2
    /\ m.context.tag # "bad"

\* is_valid
IsValid(m) ==
    /\ \A f \in {"from_id", "to_id", "intent", "message"} : m[f].tag # "none"
    /\ m.language.tag = "ok" /\ Len(m.language.val) >= 2
    /\ m.context.tag # "bad"

\* the context key under which the model keeps a value that may be an
\* instance of a dataclass; such a value says whether it is one
ObjectKey == "attachment"
Plain(fields) == [dataclass |-> FALSE, val |-> fields]
Instance(fields) == [dataclass |-> TRUE, val |-> fields]

\* asdict's recursion: an instance of a dataclass becomes the dict of its
\* fields, any other value an equal copy
AsDictValue(x) == IF x.dataclass THEN Plain(x.val) ELSE x

\* asdict(self): a dict of the eight fields; a context that is a dict is
\* rebuilt entry by entry
ToDict(m) ==
    [f \in DOMAIN m |->
        IF f = "context" /\ m.context.tag = "ok"
        THEN Ok([k \in DOMAIN m.context.val |->
                    IF k = ObjectKey THEN AsDictValue(m.context.val[k])
                    ELSE m.context.val[k]])
        ELSE m[f]]

(* ------------------------------------------------------------------ *)
(* Handler registry (agent_registry.py)                                *)
(* ------------------------------------------------------------------ *)
\* handler objects: h1, h2 have an invoke method, p1 (a plain object) has none
Handlers == {"h1", "h2", "p1"}

HasInvoke(h) == h \in {"h1", "h2"}

MetaFields == {"description", "capabilities", "intents", "version", "is_active", "config"}

\* AgentMetadata(name=name, **metadata): a key that is no field of the
\* dataclass, or a second "name", raises TypeError
MetaRaises(metaIn) == \E k \in DOMAIN metaIn : k \notin MetaFields

\* the dataclass defaults and __post_init__
AgentMetadata(name, metaIn) ==
    LET field(k, dflt) == IF k \in DOMAIN metaIn THEN metaIn[k] ELSE dflt
    IN  [name |-> name,
         description |-> field("description", ""),
         capabilities |-> field("capabilities", << >>),
         intents |-> field("intents", << >>),
         version |-> field("version", "1.0.0"),
         is_active |-> field("is_active", TRUE),
         config |-> field("config", EmptyDict)]

\* register: the handler table is written before the metadata is built
RegisterAgents(ag, name, h) == OSet(ag, name, h)

\* seeded fault: a re-registration that keeps the fields of the earlier metadata
RegisterMetadata_Merge(md, name, metaIn) ==
    IF MetaRaises(metaIn) THEN md
    ELSE IF OHas(md, name)
    THEN OSet(md, name, [f \in DOMAIN OGet(md, name) |->
                            IF f \in DOMAIN metaIn THEN metaIn[f] ELSE OGet(md, name)[f]])
    ELSE OSet(md, name, AgentMetadata(name, metaIn))

\* register, lines 65-70: nothing is stored when AgentMetadata raises
RegisterMetadata(md, name, metaIn) ==
    IF MetaRaises(metaIn) THEN md ELSE OSet(md, name, AgentMetadata(name, metaIn))

UnregisterAgents(ag, name) == IF OHas(ag, name) THEN ODel(ag, name) ELSE ag

UnregisterMetadata(ag, md, name) == IF OHas(ag, name) THEN ODel(md, name) ELSE md

IsRegistered(ag, name) == OHas(ag, name)

\* dict.get: None when the name is not a key
None == "<None>"

RegistryGet(ag, name) == IF OHas(ag, name) THEN OGet(ag, name) ELSE None

ListActive(md) ==
    OKeys(SelectSeq(md, LAMBDA e : e[2].is_active))

\* seeded fault: the inactive handlers listed too
ListByCapability_Inactive(md, capability) ==
    OKeys(SelectSeq(md, LAMBDA e :
        /\ e[2].capabilities # << >>
        /\ capability \in SeqRange(e[2].capabilities)))

ListByCapability(md, capability) ==
    OKeys(SelectSeq(md, LAMBDA e :
        /\ e[2].capabilities # << >>
        /\ capability \in SeqRange(e[2].capabilities)
        /\ e[2].is_active))

\* update_metadata: setattr for the keys that are attributes of the metadata
UpdateMetadata(md, name, update) ==
    IF ~OHas(md, name) THEN md
    ELSE OSet(md, name, [f \in DOMAIN OGet(md, name) |->
                            IF f \in DOMAIN update THEN update[f] ELSE OGet(md, name)[f]])

ListByIntent(md, intent) ==
    OKeys(SelectSeq(md, LAMBDA e :
        /\ e[2].intents # << >>
        /\ intent \in SeqRange(e[2].intents)
        /\ e[2].is_active))

(* ------------------------------------------------------------------ *)
(* Router: the pure parts (router.py)                                  *)
(* ------------------------------------------------------------------ *)
DefaultIntentMapping ==
    [get_crop_advice |-> <<"crop_advisor">>,
     get_weather |-> <<"weather">>,
     pest_control |-> <<"pest_assistant">>,
     soil_analysis |-> <<"soil_analyzer">>,
     market_prices |-> <<"market_agent">>,
     general_help |-> <<"general_assistant">>]

DefaultToolChains ==
    [comprehensive_advice |->
        <<[agent |-> "weather", purpose |-> "get_weather_data"],
          [agent |-> "crop_advisor", purpose |-> "get_crop_recommendations"],
          [agent |-> "pest_assistant", purpose |-> "get_pest_advice"]>>]

UserPrefix == <<"u", "s", "e", "r", ":">>

ExtractUserId(from_id) ==
    IF StartsWith(from_id, UserPrefix)
    THEN SubSeq(from_id, Len(UserPrefix) + 1, Len(from_id))
    ELSE from_id

CropWords ==
    {<<"c", "r", "o", "p">>,
     <<"p", "l", "a", "n", "t">>,
     <<"g", "r", "o", "w">>,
     <<"h", "a", "r", "v", "e", "s", "t">>}

WeatherWords ==
    {<<"w", "e", "a", "t", "h", "e", "r">>,
     <<"r", "a", "i", "n">>,
     <<"t", "e", "m", "p", "e", "r", "a", "t", "u", "r", "e">>,
     <<"c", "l", "i", "m", "a", "t", "e">>}

PestWords ==
    {<<"p", "e", "s", "t">>,
     <<"d", "i", "s", "e", "a", "s", "e">>,
     <<"i", "n", "s", "e", "c", "t">>,
     <<"t", "r", "e", "a", "t", "m", "e", "n", "t">>}

SoilWords ==
    {<<"s", "o", "i", "l">>,
     <<"p", "h">>,
     <<"n", "u", "t", "r", "i", "e", "n", "t">>,
     <<"f", "e", "r", "t", "i", "l", "i", "z", "e", "r">>}

PriceWords ==
    {<<"p", "r", "i", "c", "e">>,
     <<"m", "a", "r", "k", "e", "t">>,
     <<"c", "o", "s", "t">>,
     <<"s", "e", "l", "l">>}

AnyWord(words, text) == \E w \in words : Contains(text, w)

\* seeded fault: the weather words tried before the crop words
DetectIntent_WeatherFirst(text) ==
    LET message_lower == Lower(text)
    IN  IF AnyWord(WeatherWords, message_lower) THEN "get_weather"
        ELSE IF AnyWord(CropWords, message_lower) THEN "get_crop_advice"
        ELSE IF AnyWord(PestWords, message_lower) THEN "pest_control"
        ELSE IF AnyWord(SoilWords, message_lower) THEN "soil_analysis"
        ELSE IF AnyWord(PriceWords, message_lower) THEN "market_prices"
        ELSE "general_help"

\* _analyze_intent, lines 161-175: the keyword detection
DetectIntent(text) ==
    LET message_lower == Lower(text)
    IN  IF AnyWord(CropWords, message_lower) THEN "get_crop_advice"
        ELSE IF AnyWord(WeatherWords, message_lower) THEN "get_weather"
        ELSE IF AnyWord(PestWords, message_lower) THEN "pest_control"
        ELSE IF AnyWord(SoilWords, message_lower) THEN "soil_analysis"
        ELSE IF AnyWord(PriceWords, message_lower) THEN "market_prices"
        ELSE "general_help"

\* message.message.lower() raises AttributeError on a value that is no str
AnalyzeIntentRaises(m) == m.intent.val = "" /\ m.message.tag # "ok"

\* seeded fault: the keywords tried before the explicit intent
AnalyzeIntent_KeywordsFirst(m) ==
    IF DetectIntent(m.message.val) # "general_help"
    THEN DetectIntent(m.message.val) ELSE m.intent.val

\* _analyze_intent
AnalyzeIntent(m) ==
    IF m.intent.val # "" THEN m.intent.val ELSE DetectIntent(m.message.val)

\* seeded fault: the intent mapping consulted before the requested chain
SelectAgents_MappingFirst(intent, context, chains, imap, ag, md) ==
    IF intent \in DOMAIN imap
    THEN FilterSeq(imap[intent], {n \in SeqRange(imap[intent]) : IsRegistered(ag, n)})
    ELSE IF /\ "tool_chain" \in DOMAIN context
            /\ context["tool_chain"] # ""
            /\ context["tool_chain"] \in DOMAIN chains
    THEN [i \in 1..Len(chains[context["tool_chain"]]) |->
             chains[context["tool_chain"]][i].agent]
    ELSE << >>

\* _select_agents
\* seeded fault: the mapped names returned whether registered or not
SelectAgents_Unfiltered(intent, context, chains, imap, ag, md) ==
    IF /\ "tool_chain" \in DOMAIN context
       /\ context["tool_chain"] # ""
       /\ context["tool_chain"] \in DOMAIN chains
    THEN [i \in 1..Len(chains[context["tool_chain"]]) |->
             chains[context["tool_chain"]][i].agent]
    ELSE IF intent \in DOMAIN imap
    THEN imap[intent]
    ELSE IF ListByIntent(md, intent) # << >>
    THEN ListByIntent(md, intent)
    ELSE IF IsRegistered(ag, "general_assistant")
    THEN <<"general_assistant">>
    ELSE << >>

SelectAgents(intent, context, chains, imap, ag, md) ==
    IF /\ "tool_chain" \in DOMAIN context
       /\ context["tool_chain"] # ""
       /\ context["tool_chain"] \in DOMAIN chains
    THEN [i \in 1..Len(chains[context["tool_chain"]]) |->
             chains[context["tool_chain"]][i].agent]
    ELSE IF intent \in DOMAIN imap
    THEN FilterSeq(imap[intent], {n \in SeqRange(imap[intent]) : IsRegistered(ag, n)})
    ELSE IF ListByIntent(md, intent) # << >>
    THEN ListByIntent(md, intent)
    ELSE IF IsRegistered(ag, "general_assistant")
    THEN <<"general_assistant">>
    ELSE << >>

\* seeded fault: the merge taken the other way round, {**message, **user}
PrepareContext_PersistedWins(session, user_id, message_context, t) ==
    LET user_context ==
            IF session # [k \in {} |-> 0] /\ "context" \in DOMAIN session
            THEN session["context"] ELSE [k \in {} |-> 0]
        combined_context == DictMerge(message_context, user_context)
    IN  DictPut(DictPut(combined_context, "user_id", user_id), "timestamp", t)

\* {**user_context, **message_context}, then user_id and timestamp
PrepareContext(session, user_id, message_context, t) ==
    LET user_context ==
            IF session # EmptyDict /\ "context" \in DOMAIN session
            THEN session["context"] ELSE EmptyDict
        combined_context == DictMerge(user_context, message_context)
    IN  DictPut(DictPut(combined_context, "user_id", user_id), "timestamp", t)

\* the error text f"...: {x}" as the record of its parts
ErrorMessage(kind, subject, detail) ==
    [kind |-> kind, subject |-> subject, detail |-> detail]

CreateErrorResponse(error_message) ==
    [success |-> FALSE,
     error |-> error_message,
     response |-> [sorry |-> error_message],
     agent |-> None]

\* an exception on its way out of a call
Raised(e) == [raised |-> e]

\* seeded fault: an except clause that re-raises
RouteExcept_Reraise(e) == Raised(e)

\* route, lines 137-139: the except clause that ends every routing-path error
RouteExcept(e) == CreateErrorResponse(ErrorMessage("Routing error", "", e))

\* seeded fault: a failure envelope that does not name the handler
SingleExcept_Anonymous(agent_name, e) ==
    CreateErrorResponse(ErrorMessage("Agent failed", "", e))

\* _invoke_single_agent, lines 264-270: the envelope of a failed invocation
SingleExcept(agent_name, e) ==
    CreateErrorResponse(ErrorMessage("Agent failed", agent_name, e))

\* seeded fault: the injection made without the guard
InjectPreviousResults_Unguarded(context, chain_results) ==
    DictPut(context, "previous_results", chain_results)

\* _execute_tool_chain, lines 297-298: if chain_results: context[...] = chain_results
InjectPreviousResults(context, chain_results) ==
    IF chain_results # << >>
    THEN DictPut(context, "previous_results", chain_results)
    ELSE context

\* seeded fault: a failed step recorded like a result
ChainResult_NoErrorMarker(agent_name, step, outcome, reply) ==
    [agent |-> agent_name, step |-> step, result |-> reply]

\* _execute_tool_chain, lines 310-314 and 331-335: what a step leaves in
\* chain_results
ChainResult(agent_name, step, outcome, reply) ==
    IF outcome = "raise"
    THEN [agent |-> agent_name, step |-> step, error |-> reply]
    ELSE [agent |-> agent_name, step |-> step, result |-> reply]

\* _execute_tool_chain, lines 340-347
ChainResponse(agents_, combined_response, chain_results, context) ==
    [success |-> TRUE, tool_chain |-> TRUE, agents |-> agents_,
     response |-> combined_response, step_results |-> chain_results,
     context |-> context]

\* route, lines 131-133
AddMetadata(response, execution_time, session_id, user_id) ==
    DictPut(DictPut(DictPut(response,
        "execution_time", execution_time),
        "session_id", session_id),
        "user_id", user_id)

CombineToolChainResults(results) ==
    IF results = << >> THEN << >>
    ELSE [i \in 1..Len(results) |->
            IF "error" \in DOMAIN results[i]
            THEN [mark |-> "failed", agent |-> results[i].agent]
            ELSE [mark |-> "ok", agent |-> results[i].agent]]

(* ------------------------------------------------------------------ *)
(* Invocation gateway (invoker.py) and handlers                        *)
(* ------------------------------------------------------------------ *)
\* what a handler's invoke returns: an opaque text fixed by the handler
\* object and its input
HandlerReply(h, message) == [src |-> "handler", by |-> h, text |-> message]

\* the exception text of a handler that raises
HandlerError == "boom"

\* objects whose __format__ raises, given as a message text or as a handler
\* name, and str() of what they raise
NoFormatText == [tag |-> "ok", val |-> <<"<unformattable>">>]

NoFormatName == "<unformattable>"

FormatError == "cannot format"

\* str() of the RuntimeError of a backend that cannot be reached
BackendError == "Vertex AI SDK not available"

IsRaised(r) == DOMAIN r = {"raised"}

\* _invoke_local_agent: an f-string of the name is logged, then the
\* placeholder response, an f-string of the name and the message
InvokeLocalAgent(agent_name, message) ==
    IF agent_name = NoFormatName \/ message = NoFormatText
    THEN Raised(FormatError)
    ELSE [src |-> "invoker", by |-> agent_name, text |-> message]

\* _invoke_vertex_agent: raises when the backend cannot be reached, else the
\* first prediction of the endpoint as text (agent_name.startswith raises
\* for a name that is no string)
InvokeVertexAgent(agent_name, message, up) ==
    IF ~up THEN Raised(BackendError)
    ELSE IF agent_name = NoFormatName THEN Raised("no attribute startswith")
    ELSE [src |-> "vertex", by |-> agent_name, text |-> message]

\* f"Error: Failed to invoke agent {agent_name}. {str(e)}"
InvokeFailed(agent_name, e) ==
    [text |-> "Error: Failed to invoke agent", agent |-> agent_name, error |-> e]

\* seeded fault: invoke lets the exception of its dispatch escape
InvokerInvoke_Reraise(agent_name, message, agent_type, up) ==
    IF agent_type = "vertex"
    THEN InvokeVertexAgent(agent_name, message, up)
    ELSE InvokeLocalAgent(agent_name, message)

\* AgentInvoker.invoke: the dispatch on agent_type, and the except clause
\* that logs an f-string of the name and turns what the dispatch raised into
\* an error text
InvokerInvoke(agent_name, message, agent_type, up) ==
    LET r == IF agent_type = "vertex"
             THEN InvokeVertexAgent(agent_name, message, up)
             ELSE InvokeLocalAgent(agent_name, message)
    IN  IF ~IsRaised(r) THEN r
        ELSE IF agent_name = NoFormatName THEN Raised(FormatError)
        ELSE InvokeFailed(agent_name, r.raised)

\* f"Error: All agents failed. Original error: {str(e)}"
AllFailed(e) == [text |-> "Error: All agents failed. Original error", error |-> e]

\* invoke_with_fallback: invoke is called with the default agent_type; the
\* except clauses run when invoke raises, and each logs an f-string of the
\* name it was given
InvokeWithFallback(agent_name, message, fallback_agent, up) ==
    LET first == InvokerInvoke(agent_name, message, "local", up)
    IN  IF ~IsRaised(first) THEN first
        ELSE IF agent_name = NoFormatName THEN Raised(FormatError)
        ELSE IF fallback_agent = None THEN AllFailed(first.raised)
        ELSE IF fallback_agent = NoFormatName THEN Raised(FormatError)
        ELSE LET second == InvokerInvoke(fallback_agent, message, "local", up)
             IN  IF ~IsRaised(second) THEN second ELSE AllFailed(first.raised)

(* ------------------------------------------------------------------ *)
(* Session store (memory.py)                                           *)
(* ------------------------------------------------------------------ *)
\* A store is [fire, mem, heap, fs]: fire is _use_firestore; mem is _memory
\* (caller id -> reference of a session dict); heap holds the session dicts
\* the process has references to; fs is the Firestore collection. down and
\* unread tell whether Firestore refuses writes and reads.
HistoryCap == 100

NewRef(hp) ==
    CHOOSE r \in 1..(Cardinality(DOMAIN hp) + 1) :
        /\ r \notin DOMAIN hp
        /\ \A q \in 1..(Cardinality(DOMAIN hp) + 1) : q \notin DOMAIN hp => r <= q

\* doc_ref.set(data, merge=True): the fields of data replace those stored,
\* a non-empty map field is merged key by key, other stored fields are kept
FirestoreMergeSet(fs, u, data) ==
    IF u \notin DOMAIN fs THEN DictPut(fs, u, data)
    ELSE DictPut(fs, u,
            [k \in DOMAIN fs[u] \cup DOMAIN data |->
                IF k \notin DOMAIN data THEN fs[u][k]
                ELSE IF k = "context" /\ k \in DOMAIN fs[u] /\ data[k] # EmptyDict
                THEN DictMerge(fs[u][k], data[k])
                ELSE data[k]])

\* get_session; st.unread: doc_ref.get() raises and the except clause
\* returns {}
GetSession(st, u) ==
    IF st.fire
    THEN LET r == NewRef(st.heap)
         IN  [st |-> [st EXCEPT !.heap =
                        DictPut(@, r, IF u \in DOMAIN st.fs /\ ~st.unread
                                      THEN st.fs[u] ELSE EmptyDict)],
              ref |-> r]
    ELSE IF u \in DOMAIN st.mem
    THEN [st |-> st, ref |-> st.mem[u]]
    ELSE LET r == NewRef(st.heap)
         IN  [st |-> [st EXCEPT !.heap = DictPut(@, r, EmptyDict)], ref |-> r]

\* seeded fault: a save that writes nothing
SaveSession_Lost(st, u, r) == st

\* save_session; st.down: Firestore refuses writes, the set raises and the
\* except clause logs the error and returns
SaveSession(st, u, r) ==
    IF st.fire
    THEN (IF st.down THEN st ELSE [st EXCEPT !.fs = FirestoreMergeSet(@, u, st.heap[r])])
    ELSE [st EXCEPT !.mem = DictPut(@, u, r)]

\* seeded fault: a delete that empties the whole store
DeleteSession_All(st, u) == [st EXCEPT !.fs = [k \in {} |-> 0], !.mem = [k \in {} |-> 0]]

\* delete_session: doc_ref.delete() / self._memory.pop(key, None)
DeleteSession(st, u) ==
    IF st.fire
    THEN (IF st.down THEN st ELSE [st EXCEPT !.fs = DictDrop(@, u)])
    ELSE [st EXCEPT !.mem = DictDrop(@, u)]

\* session[key] = val on the dict r refers to
SetItem(st, r, key, val) == [st EXCEPT !.heap[r] = DictPut(@, key, val)]

\* if key not in session: session[key] = dflt
EnsureItem(st, r, key, dflt) ==
    IF key \in DOMAIN st.heap[r] THEN st ELSE SetItem(st, r, key, dflt)

\* dicts no reference is left to are dropped
Collect(st, live) ==
    [st EXCEPT !.heap =
        [r \in {q \in DOMAIN st.heap : q \in live \/ \E u \in DOMAIN st.mem : st.mem[u] = q}
            |-> st.heap[r]]]

\* the value get_session returns, for the callers that only read it
ReadSession(st, u) ==
    IF st.fire THEN (IF u \in DOMAIN st.fs /\ ~st.unread THEN st.fs[u] ELSE EmptyDict)
    ELSE IF u \in DOMAIN st.mem THEN st.heap[st.mem[u]] ELSE EmptyDict

\* seeded fault: the cap keeps the oldest entries
LastN_First(s, n) == IF Len(s) > n THEN SubSeq(s, 1, n) ELSE s

\* s[-n:]
LastN(s, n) == IF Len(s) > n THEN SubSeq(s, Len(s) - n + 1, Len(s)) ELSE s

\* session["context"][key] = value
PutContext(st, r, key, value) ==
    SetItem(st, r, "context", DictPut(st.heap[r]["context"], key, value))

\* seeded fault: the append left out
AppendHistory_Dropped(st, r, message, t) == st

\* seeded fault: the append also files the exchange under the context
AppendHistory_IntoContext(st, r, message, t) ==
    LET stamped == IF "timestamp" \in DOMAIN message THEN message
                   ELSE DictPut(message, "timestamp", t)
        appended == Append(st.heap[r]["conversation_history"], stamped)
        capped == IF Len(appended) > HistoryCap THEN LastN(appended, HistoryCap)
                  ELSE appended
    IN  SetItem(SetItem(st, r, "conversation_history", capped),
                r, "context", [last_message |-> t])

\* session["conversation_history"].append(message), then the cap
AppendHistory(st, r, message, t) ==
    LET stamped == IF "timestamp" \in DOMAIN message THEN message
                   ELSE DictPut(message, "timestamp", t)
        appended == Append(st.heap[r]["conversation_history"], stamped)
    IN  SetItem(st, r, "conversation_history",
                IF Len(appended) > HistoryCap THEN LastN(appended, HistoryCap) ELSE appended)

SetContextCall(st, u, key, value, t) ==
    LET g == GetSession(st, u)
        s1 == EnsureItem(g.st, g.ref, "context", EmptyDict)
        s2 == PutContext(s1, g.ref, key, value)
        s3 == SetItem(s2, g.ref, "last_updated", t)
    IN  Collect(SaveSession(s3, u, g.ref), {})

\* add_conversation_message that keeps only successful exchanges
AddConversationMessage_SkipFailure(st, u, message, t) ==
    IF ~message.response.success THEN st
    ELSE LET g == GetSession(st, u)
             s1 == EnsureItem(g.st, g.ref, "conversation_history", << >>)
             s2 == AppendHistory(s1, g.ref, message, t)
             s3 == SetItem(s2, g.ref, "last_updated", t)
         IN  Collect(SaveSession(s3, u, g.ref), {})

AddConversationMessage(st, u, message, t) ==
    LET g == GetSession(st, u)
        s1 == EnsureItem(g.st, g.ref, "conversation_history", << >>)
        s2 == AppendHistory(s1, g.ref, message, t)
        s3 == SetItem(s2, g.ref, "last_updated", t)
    IN  Collect(SaveSession(s3, u, g.ref), {})

\* save_session called with a dict of the caller's
SaveSessionCall(st, u, data) ==
    LET r == NewRef(st.heap)
    IN  Collect(SaveSession([st EXCEPT !.heap = DictPut(@, r, data)], u, r), {})

\* seeded fault: clear_context that clears the whole document
ClearContext_All(st, u, t) ==
    LET g == GetSession(st, u)
        s1 == [g.st EXCEPT !.heap[g.ref] = [context |-> EmptyDict, last_updated |-> t]]
    IN  Collect(SaveSession(s1, u, g.ref), {})

\* clear_context: session["context"] = {}
ClearContext(st, u, t) ==
    LET g == GetSession(st, u)
        s1 == SetItem(g.st, g.ref, "context", EmptyDict)
        s2 == SetItem(s1, g.ref, "last_updated", t)
    IN  Collect(SaveSession(s2, u, g.ref), {})

\* clear_conversation_history: session["conversation_history"] = []
ClearConversationHistory(st, u, t) ==
    LET g == GetSession(st, u)
        s1 == SetItem(g.st, g.ref, "conversation_history", << >>)
        s2 == SetItem(s1, g.ref, "last_updated", t)
    IN  Collect(SaveSession(s2, u, g.ref), {})

\* import_session: json.loads raises on a text that is not JSON and the
\* except clause returns False; the parsed document goes to save_session
ImportSession(st, u, json_data) ==
    IF json_data.tag # "ok" THEN st ELSE SaveSessionCall(st, u, json_data.val)

\* conversation_history as get_conversation_history reads it
HistoryOf(session) ==
    IF "conversation_history" \in DOMAIN session
    THEN session["conversation_history"] ELSE << >>

ContextOf(session) ==
    IF "context" \in DOMAIN session THEN session["context"] ELSE EmptyDict

(* ------------------------------------------------------------------ *)
(* Reasoning log (logger.py), in-memory storage                        *)
(* ------------------------------------------------------------------ *)
\* ReasoningLogger.log: session_id or f"session_{now}", then the append
LogEntry(user_id, step, details, session_id, t) ==
    [user_id |-> user_id,
     session_id |-> IF session_id = "" THEN SessionName(t) ELSE session_id,
     timestamp |-> t,
     step |-> step,
     details |-> details]

LogsOf(lg, user_id) == IF user_id \in DOMAIN lg THEN lg[user_id] ELSE << >>

\* seeded fault: the entry appended twice
Log_Twice(lg, user_id, step, details, session_id, t) ==
    DictPut(lg, user_id,
            LogsOf(lg, user_id) \o <<LogEntry(user_id, step, details, session_id, t),
                                     LogEntry(user_id, step, details, session_id, t)>>)

\* ReasoningLogger.log, in-memory: the entry appended to the caller's list
Log(lg, user_id, step, details, session_id, t) ==
    DictPut(lg, user_id,
            Append(LogsOf(lg, user_id), LogEntry(user_id, step, details, session_id, t)))

\* the step types a ReasoningStep is logged with in the model
StepTypes == {"analysis", "decision"}

\* f"reasoning_step_{reasoning_step.step_type}"
ReasoningStepName(step_type) ==
    CASE step_type = "analysis" -> "reasoning_step_analysis"
      [] step_type = "decision" -> "reasoning_step_decision"

\* step.startswith("reasoning_step_"), over the step names the model logs
IsReasoningStepName(step) == \E t \in StepTypes : step = ReasoningStepName(t)

\* log_reasoning_step
LogReasoningStep(lg, user_id, reasoning_step, session_id, t) ==
    Log(lg, user_id, ReasoningStepName(reasoning_step.step_type),
        [step_id |-> reasoning_step.step_id,
         step_type |-> reasoning_step.step_type,
         description |-> reasoning_step.description,
         input_data |-> reasoning_step.input_data,
         output_data |-> reasoning_step.output_data,
         metadata |-> reasoning_step.metadata],
        session_id, t)

\* list.sort(key=timestamp, reverse=True): stable, the later timestamp first
RECURSIVE SortNewestFirst(_)
SortNewestFirst(entries) ==
    IF entries = << >> THEN << >>
    ELSE LET e == Head(entries)
             rest == SortNewestFirst(Tail(entries))
             newer == SelectSeq(rest, LAMBDA x : x.timestamp > e.timestamp)
             others == SelectSeq(rest, LAMBDA x : x.timestamp <= e.timestamp)
         IN  newer \o <<e>> \o others

\* the slice s[:limit] of Python, limit of either sign
SliceTo(s, limit) ==
    LET n == IF limit >= 0
             THEN (IF limit < Len(s) THEN limit ELSE Len(s))
             ELSE (IF Len(s) + limit > 0 THEN Len(s) + limit ELSE 0)
    IN  SubSeq(s, 1, n)

\* seeded fault: the filter by session left out
GetLogs_Unfiltered(lg, user_id, limit, session_id) ==
    SliceTo(SortNewestFirst(LogsOf(lg, user_id)), limit)

\* get_logs, in-memory: what it returns; an empty session_id stands for
\* None and for "", which the code treats alike
GetLogs(lg, user_id, limit, session_id) ==
    LET user_logs == IF session_id # ""
                     THEN SelectSeq(LogsOf(lg, user_id),
                                    LAMBDA log : log.session_id = session_id)
                     ELSE LogsOf(lg, user_id)
    IN  SliceTo(SortNewestFirst(user_logs), limit)

\* get_logs, in-memory: the storage after it; without a session filter the
\* list sorted is the stored list itself
GetLogsStored(lg, user_id, session_id) ==
    IF session_id = "" /\ user_id \in DOMAIN lg
    THEN DictPut(lg, user_id, SortNewestFirst(lg[user_id]))
    ELSE lg

\* get_session_logs
GetSessionLogs(lg, user_id, session_id) == GetLogs(lg, user_id, 1000, session_id)

\* details.get(key, default)
DetailOr(details, key, default) ==
    IF key \in DOMAIN details THEN details[key] ELSE default

\* get_reasoning_trace
GetReasoningTrace(lg, user_id, session_id) ==
    LET found == SelectSeq(GetSessionLogs(lg, user_id, session_id),
                           LAMBDA log : IsReasoningStepName(log.step))
    IN  [i \in DOMAIN found |->
            [step_id |-> DetailOr(found[i].details, "step_id", ""),
             timestamp |-> found[i].timestamp,
             step_type |-> DetailOr(found[i].details, "step_type", ""),
             description |-> DetailOr(found[i].details, "description", ""),
             input_data |-> DetailOr(found[i].details, "input_data", EmptyDict),
             output_data |-> DetailOr(found[i].details, "output_data", EmptyDict),
             metadata |-> DetailOr(found[i].details, "metadata", EmptyDict)]]

(* ------------------------------------------------------------------ *)
(* State                                                               *)
(* ------------------------------------------------------------------ *)
VARIABLES
    now,             \* the clock (datetime.utcnow / time.time)
    agents,          \* AgentRegistry._agents
    metadata,        \* AgentRegistry._metadata
    intent_mapping,  \* AgentRouter._intent_mapping
    tool_chains,     \* AgentRouter._tool_chains
    store,           \* MemoryManager: [fire, mem, heap, fs]
    logs,            \* ReasoningLogger._logs
    rpc,             \* where the running route / handle_message call stands
                     \* ("returned": it has just returned)
    rt,              \* the locals of that call
    result,          \* what the last call returned
    calls,           \* the handler and gateway invocations of the last call
    pre,             \* logs and sessions as they were when the last call began
    nReq,            \* calls made
    nSetup,          \* setup calls made
    th,              \* the threads running a session operation, and where each stands
    saves,           \* the save_session calls those threads have made, in order
    vertex,          \* the remote backend can be reached (SDK present, endpoint up)
    probe            \* the last call of a single operation: its arguments and outcome

vars == <<now, agents, metadata, intent_mapping, tool_chains, store, logs,
          rpc, rt, result, calls, pre, nReq, nSetup, th, saves, probe, vertex>>

\* every session document, by caller id, as get_session returns it
SessionDocs(st) ==
    [u \in (IF st.fire THEN DOMAIN st.fs ELSE DOMAIN st.mem) |-> ReadSession(st, u)]

NoResult == [pending |-> TRUE]

\* seeded fault: the failure of a Firestore write leaves the method
WriteRaises_Propagated(failed) == failed

\* a Firestore write sits in try/except Exception, whose handler logs the
\* error and returns: whether a failed write raises to the caller
WriteRaises(failed) == FALSE

FirestoreError == [error |-> "ServiceUnavailable"]

\* ReasoningLogger.log as route calls it: while Firestore refuses writes the
\* logger is the one that uses Firestore, and the entry is dropped
LogWrite(lg, user_id, step, details, session_id, t) ==
    IF store.down THEN lg ELSE Log(lg, user_id, step, details, session_id, t)

NoProbe == [kind |-> "none"]

NoCall ==
    [data |-> EmptyDict, via |-> "", hmsg |-> EmptyDict, msg |-> EmptyDict,
     user_id |-> << >>, session_id |-> "", intent |-> "", selected |-> << >>,
     start_time |-> 0, execution_time |-> 0, i |-> 0, context |-> EmptyDict, chain_results |-> << >>,
     response |-> NoResult]

Init ==
    /\ now = 0
    /\ agents = << >>
    /\ metadata = << >>
    /\ intent_mapping = DefaultIntentMapping
    /\ tool_chains = DefaultToolChains
    /\ store \in {[fire |-> f, mem |-> EmptyDict, heap |-> EmptyDict, fs |-> EmptyDict,
                     down |-> FALSE, unread |-> FALSE] : f \in BOOLEAN}
    /\ logs = EmptyDict
    /\ rpc = "idle"
    /\ rt = NoCall
    /\ result = NoResult
    /\ calls = << >>
    /\ pre = [logs |-> EmptyDict, sessions |-> EmptyDict]
    /\ nReq = 0
    /\ nSetup = 0
    /\ th = << >>
    /\ saves = << >>
    /\ probe = NoProbe
    /\ vertex \in BOOLEAN

(* ------------------------------------------------------------------ *)
(* Inputs                                                              *)
(* ------------------------------------------------------------------ *)
UserA == <<"u", "s", "e", "r", ":", "a">>
AgentB == <<"b">>
TextRain == <<"R", "a", "i", "n">>
TextHi == <<"h", "i">>

\* an earlier chain's outcome list, as a caller or a stored context may carry it
StaleResults == <<[agent |-> "old", step |-> 7, result |-> InvokeLocalAgent("old", Ok(TextHi))]>>

MsgContexts ==
    {EmptyDict,
     [b |-> 3, c |-> 4],
     [tool_chain |-> "comprehensive_advice"],
     [tool_chain |-> "comprehensive_advice", previous_results |-> StaleResults, b |-> 3],
     [tool_chain |-> "no_such_chain", user_id |-> <<"z">>, timestamp |-> 9]}

Message(from, intent, text, ctx, sid) ==
    [from_id |-> from, to_id |-> Ok(<<"r">>), intent |-> intent, message |-> text,
     language |-> Absent(<< >>), context |-> ctx, timestamp |-> Absent(0),
     session_id |-> sid]

BaseMessage == Message(Ok(UserA), Ok("get_weather"), Ok(TextHi), Ok(EmptyDict), Ok("s1"))

ValidMessages ==
    {Message(Ok(UserA), Ok(i), Ok(x), Ok(EmptyDict), Ok("s1")) :
        i \in {"", "get_weather", "translate"}, x \in {TextRain, TextHi}}
    \cup {Message(Ok(AgentB), Ok("get_weather"), Ok(TextHi), Ok(EmptyDict), Ok("s1"))}
    \cup {Message(Ok(UserA), Ok("get_weather"), Ok(TextHi), Ok(c), Ok("s1")) :
        c \in MsgContexts}
    \cup {Message(Ok(UserA), Ok("get_weather"), Ok(TextHi), NoneF(EmptyDict), sid) :
        sid \in {Ok(""), Absent(""), NoneF("")}}
    \cup {[BaseMessage EXCEPT !.language = Ok(<<"h", "i">>)]}

\* valid by is_valid, but of a type the router's string operations reject
IllTypedMessages ==
    {[BaseMessage EXCEPT !.from_id = BadF(<< >>)],
     [BaseMessage EXCEPT !.message = BadF(<< >>), !.intent = Ok("")],
     [BaseMessage EXCEPT !.message = BadF(<< >>)]}

InvalidMessages ==
    {[BaseMessage EXCEPT ![f] = Absent(BaseMessage[f].val)] :
        f \in {"from_id", "to_id", "intent", "message"}}
    \cup {[BaseMessage EXCEPT ![f] = NoneF(BaseMessage[f].val)] :
        f \in {"from_id", "to_id", "intent", "message"}}
    \cup {[BaseMessage EXCEPT !.language = l] :
        l \in {NoneF(<< >>), BadF(<< >>), Ok(<<"e">>), Ok(<< >>)}}
    \cup {[BaseMessage EXCEPT !.context = BadF(EmptyDict)]}

Requests == ValidMessages \cup IllTypedMessages \cup InvalidMessages

RegNames == {"weather", "crop_advisor", "general_assistant"}

\* register(name, handler, metadata) calls
Registrations ==
    {<<"weather", "h1", EmptyDict>>,
     <<"weather", "p1", EmptyDict>>,
     <<"crop_advisor", "h1", EmptyDict>>,
     <<"general_assistant", "h1", EmptyDict>>,
     <<"crop_advisor", "h1", [intents |-> <<"translate">>]>>,
     <<"weather", "h1", [is_active |-> FALSE]>>}

\* set_context(user_id, key, value) and save_session(user_id, data) calls
ContextWrites ==
    {<<(<<"a">>), "a", 1>>,
     <<(<<"b">>), "a", 1>>}

StaleContextWrites == {<<(<<"a">>), "previous_results", StaleResults>>}

SessionWrites == {<<(<<"a">>), [context |-> [a |-> 1, b |-> 2]]>>}

\* add_intent_mapping(intent, agents) and add_tool_chain(name, steps) calls
MappingWrites == {<<"get_weather", <<"weather", "crop_advisor">>>>,
                  <<"translate", <<"weather">>>>}

ChainWrites == {<<"comprehensive_advice",
                  <<[agent |-> "weather", purpose |-> "w"],
                    [agent |-> "general_assistant", purpose |-> "g"]>>>>}

(* ------------------------------------------------------------------ *)
(* Setup calls: registry, routing tables, session store                *)
(* ------------------------------------------------------------------ *)
\* a setup call is made between requests: "returned" is the state a call
\* leaves, "idle" the state after a setup call
\* (a setup call after the last request of a behaviour has no observer)
CanSetup == rpc \in {"idle", "returned"} /\ nSetup < MaxSetup /\ nReq < MaxReq

Register(name, h, metaIn) ==
    /\ CanSetup
    /\ agents' = RegisterAgents(agents, name, h)
    /\ metadata' = RegisterMetadata(metadata, name, metaIn)
    /\ nSetup' = nSetup + 1
    /\ rpc' = "idle"
    /\ UNCHANGED <<vertex, probe, th, saves, now, intent_mapping, tool_chains, store, logs, rt, result,
                   calls, pre, nReq>>

Unregister(name) ==
    /\ CanSetup
    /\ agents' = UnregisterAgents(agents, name)
    /\ metadata' = UnregisterMetadata(agents, metadata, name)
    /\ nSetup' = nSetup + 1
    /\ rpc' = "idle"
    /\ UNCHANGED <<vertex, probe, th, saves, now, intent_mapping, tool_chains, store, logs, rt, result,
                   calls, pre, nReq>>

AddIntentMapping(intent, names) ==
    /\ CanSetup
    /\ intent_mapping' = DictPut(intent_mapping, intent, names)
    /\ nSetup' = nSetup + 1
    /\ rpc' = "idle"
    /\ UNCHANGED <<vertex, probe, th, saves, now, agents, metadata, tool_chains, store, logs, rt, result,
                   calls, pre, nReq>>

AddToolChain(name, steps) ==
    /\ CanSetup
    /\ tool_chains' = DictPut(tool_chains, name, steps)
    /\ nSetup' = nSetup + 1
    /\ rpc' = "idle"
    /\ UNCHANGED <<vertex, probe, th, saves, now, agents, metadata, intent_mapping, store, logs, rt, result,
                   calls, pre, nReq>>

SetContext(u, key, value) ==
    /\ CanSetup
    /\ store' = SetContextCall(store, u, key, value, now)
    /\ nSetup' = nSetup + 1
    /\ rpc' = "idle"
    /\ UNCHANGED <<vertex, probe, th, saves, now, agents, metadata, intent_mapping, tool_chains, logs, rt,
                   result, calls, pre, nReq>>

SaveSessionOp(u, data) ==
    /\ CanSetup
    /\ store' = SaveSessionCall(store, u, data)
    /\ nSetup' = nSetup + 1
    /\ rpc' = "idle"
    /\ UNCHANGED <<vertex, probe, th, saves, now, agents, metadata, intent_mapping, tool_chains, logs, rt,
                   result, calls, pre, nReq>>

\* time passes; the clock is read only while a call runs
Tick ==
    /\ now < MaxTime
    /\ rpc \notin {"idle", "returned"}
    /\ now' = now + 1
    /\ UNCHANGED <<vertex, probe, th, saves, agents, metadata, intent_mapping, tool_chains, store, logs, rpc, rt,
                   result, calls, pre, nReq, nSetup>>

(* ------------------------------------------------------------------ *)
(* AgentRouter.route and AgentOrchestrator.handle_message              *)
(* ------------------------------------------------------------------ *)
\* session_id or "default", as route passes it to the dispatch and to
\* log_agent_selection
OrDefault(session_id) == IF session_id = "" THEN "default" ELSE session_id

\* route, lines 75-111: from the call to the logged selection.  The result is
\* the call's locals, the log, and where the call stands next: "routed" when
\* route has returned (an early return, or the except clause).
RouteHead(data, via, hmsg, lg, ag, md, imap, chains, t) ==
    LET call == [NoCall EXCEPT !.data = data, !.via = via, !.hmsg = hmsg,
                               !.start_time = t]
        early(c, resp, l) == [rt |-> [c EXCEPT !.response = resp], logs |-> l,
                              rpc |-> "routed"]
    IN
    IF FromDictRaises(data)
    THEN early(call, RouteExcept("TypeError"), lg)
    ELSE
    LET message == FromDict(data, t)
        call1 == [call EXCEPT !.msg = message]
    IN
    IF ~IsValid(message)
    THEN early(call1, CreateErrorResponse(ErrorMessage("Invalid ACP message format", "", "")),
               lg)
    ELSE IF message.from_id.tag # "ok"
    THEN early(call1, RouteExcept("AttributeError"), lg)
    ELSE
    LET user_id == ExtractUserId(message.from_id.val)
        session_id == message.session_id.val
        call2 == [call1 EXCEPT !.user_id = user_id, !.session_id = session_id]
        lg1 == LogWrite(lg, user_id, "message_received", [message |-> ToDict(message)],
                   session_id, t)
    IN
    IF AnalyzeIntentRaises(message)
    THEN early(call2, RouteExcept("AttributeError"), lg1)
    ELSE
    LET intent == AnalyzeIntent(message)
        lg2 == LogWrite(lg1, user_id, "intent_analysis",
                   [message |-> message.message, detected_intent |-> intent,
                    confidence |-> "0.9", alternatives |-> << >>],
                   session_id, t)
        selected_agents == SelectAgents(intent, message.context.val, chains, imap, ag, md)
        call3 == [call2 EXCEPT !.intent = intent, !.selected = selected_agents]
    IN
    IF selected_agents = << >>
    THEN early(call3, CreateErrorResponse(ErrorMessage("No agent found for intent", intent, "")),
               lg2)
    ELSE
    [rt |-> [call3 EXCEPT !.i = 1],
     logs |-> LogWrite(lg2, user_id, "agent_selection",
                  [intent |-> intent, selected_agent |-> selected_agents[1],
                   available_agents |-> ListActive(md),
                   selection_reason |-> "Intent-based routing"],
                  OrDefault(session_id), t),
     rpc |-> IF Len(selected_agents) > 1 THEN "chain" ELSE "single"]

Snapshot == [logs |-> logs, sessions |-> SessionDocs(store)]

\* router.route(acp_message), called directly
RouteCall(data) ==
    /\ rpc \in {"idle", "returned"}
    /\ nReq < MaxReq
    /\ LET h == RouteHead(data, "route", EmptyDict, logs, agents, metadata,
                          intent_mapping, tool_chains, now)
       IN  /\ rt' = h.rt
           /\ logs' = h.logs
           /\ rpc' = h.rpc
    /\ result' = NoResult
    /\ calls' = << >>
    /\ pre' = Snapshot
    /\ nReq' = nReq + 1
    /\ UNCHANGED <<vertex, probe, th, saves, now, agents, metadata, intent_mapping, tool_chains, store, nSetup>>

OrchestratorError(kind, detail) ==
    [success |-> FALSE, error |-> ErrorMessage(kind, "", detail),
     response |-> [sorry |-> kind]]

\* handle_message, lines 67-75: its own validation
HandleMessage(data) ==
    /\ rpc \in {"idle", "returned"}
    /\ nReq < MaxReq
    /\ IF FromDictRaises(data)
       THEN /\ result' = OrchestratorError("Orchestrator error", "TypeError")
            /\ rpc' = "returned"
            /\ rt' = [NoCall EXCEPT !.data = data, !.via = "handle_message"]
       ELSE IF ~IsValid(FromDict(data, now))
       THEN /\ result' = OrchestratorError("Invalid ACP message format", "")
            /\ rpc' = "returned"
            /\ rt' = [NoCall EXCEPT !.data = data, !.via = "handle_message"]
       ELSE /\ result' = NoResult
            /\ rpc' = "call_route"
            /\ rt' = [NoCall EXCEPT !.data = data, !.via = "handle_message",
                                    !.hmsg = FromDict(data, now)]
    /\ calls' = << >>
    /\ pre' = Snapshot
    /\ nReq' = nReq + 1
    /\ UNCHANGED <<vertex, probe, th, saves, now, agents, metadata, intent_mapping, tool_chains, store, logs,
                   nSetup>>

\* handle_message, line 78: the call of router.route
HandleRoute ==
    /\ rpc = "call_route"
    /\ LET h == RouteHead(rt.data, "handle_message", rt.hmsg, logs, agents, metadata,
                          intent_mapping, tool_chains, now)
       IN  /\ rt' = h.rt
           /\ logs' = h.logs
           /\ rpc' = h.rpc
    /\ UNCHANGED <<vertex, probe, th, saves, now, agents, metadata, intent_mapping, tool_chains, store, result,
                   calls, pre, nReq, nSetup>>

\* one invocation: how it was dispatched, what it was given, how it ended
Invocation(agent_name, via, h, context, outcome) ==
    [agent |-> agent_name, via |-> via, handler |-> h, context |-> context,
     outcome |-> outcome]

\* _invoke_single_agent
InvokeSingleAgent(outcome) ==
    /\ rpc = "single"
    /\ LET agent_name == rt.selected[1]
           agent == RegistryGet(agents, agent_name)
           context == PrepareContext(ReadSession(store, rt.user_id), rt.user_id,
                                     rt.msg.context.val, now)
           session_id == OrDefault(rt.session_id)
       IN
       IF agent = None
       THEN /\ outcome = "return"
            /\ rt' = [rt EXCEPT !.response =
                        CreateErrorResponse(ErrorMessage("Agent not found", agent_name, ""))]
            /\ UNCHANGED <<logs, calls>>
       ELSE IF HasInvoke(agent) /\ outcome = "raise"
       THEN /\ calls' = Append(calls, Invocation(agent_name, "handler", agent, context, "raise"))
            /\ logs' = LogWrite(logs, rt.user_id, "error",
                           [error_type |-> "agent_invocation_error",
                            error_message |-> HandlerError, stack_trace |-> None,
                            context |-> [agent |-> agent_name]],
                           session_id, now)
            /\ rt' = [rt EXCEPT !.response = SingleExcept(agent_name, HandlerError)]
       ELSE /\ outcome = "return"
            /\ LET response == IF HasInvoke(agent)
                               THEN HandlerReply(agent, rt.msg.message)
                               ELSE InvokerInvoke(agent_name, rt.msg.message, "local", vertex)
               IN  /\ calls' = Append(calls,
                        Invocation(agent_name,
                                   IF HasInvoke(agent) THEN "handler" ELSE "invoker",
                                   agent, context, "return"))
                   /\ logs' = LogWrite(logs, rt.user_id, "agent_invocation",
                                  [agent_name |-> agent_name,
                                   input_message |-> rt.msg.message,
                                   context |-> context, response |-> response,
                                   execution_time |-> 0],
                                  session_id, now)
                   /\ rt' = [rt EXCEPT !.context = context, !.response =
                               [success |-> TRUE, agent |-> agent_name,
                                response |-> response, context |-> context]]
    /\ rpc' = "finish"
    /\ UNCHANGED <<vertex, probe, th, saves, now, agents, metadata, intent_mapping, tool_chains, store, result,
                   pre, nReq, nSetup>>

\* _execute_tool_chain: one turn of its loop (with, before the first, the
\* context's preparation and, after the last, the combined response)
ToolChainStep(outcome) ==
    /\ rpc = "chain"
    /\ LET i == rt.i
           agent_name == rt.selected[i]
           prepared == IF i = 1
                       THEN PrepareContext(ReadSession(store, rt.user_id), rt.user_id,
                                           rt.msg.context.val, now)
                       ELSE rt.context
           context == InjectPreviousResults(prepared, rt.chain_results)
           local == /\ IsRegistered(agents, agent_name)
                    /\ HasInvoke(RegistryGet(agents, agent_name))
           session_id == OrDefault(rt.session_id)
           chain_results ==
               Append(rt.chain_results,
                      ChainResult(agent_name, i, outcome,
                          IF outcome = "raise" THEN HandlerError
                          ELSE IF local
                          THEN HandlerReply(RegistryGet(agents, agent_name), rt.msg.message)
                          ELSE InvokerInvoke(agent_name, rt.msg.message, "local", vertex)))
           \* context["previous_results"] is the list chain_results itself
           after == IF "previous_results" \in DOMAIN context
                       /\ context["previous_results"] = rt.chain_results
                    THEN DictPut(context, "previous_results", chain_results)
                    ELSE context
       IN  /\ outcome = "raise" => local
           /\ calls' = Append(calls,
                Invocation(agent_name, IF local THEN "handler" ELSE "invoker",
                           RegistryGet(agents, agent_name), context, outcome))
           /\ logs' = IF outcome = "raise"
                      THEN LogWrite(logs, rt.user_id, "error",
                               [error_type |-> "tool_chain_error",
                                error_message |-> HandlerError, stack_trace |-> None,
                                context |-> [agent |-> agent_name, step |-> i]],
                               session_id, now)
                      ELSE LogWrite(logs, rt.user_id, "tool_chain_step",
                               [agent |-> agent_name, step |-> i,
                                result |-> chain_results[i]["result"]],
                               session_id, now)
           /\ IF i < Len(rt.selected)
              THEN /\ rt' = [rt EXCEPT !.i = i + 1, !.context = after,
                                       !.chain_results = chain_results]
                   /\ rpc' = "chain"
              ELSE /\ rt' = [rt EXCEPT !.i = i + 1, !.context = after,
                                       !.chain_results = chain_results,
                                       !.response =
                                         ChainResponse(rt.selected,
                                             CombineToolChainResults(chain_results),
                                             chain_results, after)]
                   /\ rpc' = "finish"
    /\ UNCHANGED <<vertex, probe, th, saves, now, agents, metadata, intent_mapping, tool_chains, store, result,
                   pre, nReq, nSetup>>

\* route, lines 119-128: the response_sent entry, whose details hold the
\* response dict itself
RouteTail ==
    /\ rpc = "finish"
    /\ LET execution_time == now - rt.start_time
       IN  IF WriteRaises(store.down)
           THEN /\ rt' = [rt EXCEPT !.response = RouteExcept(FirestoreError)]
                /\ rpc' = "routed"
                /\ UNCHANGED logs
           ELSE /\ logs' = LogWrite(logs, rt.user_id, "response_sent",
                                    [response |-> rt.response,
                                     execution_time |-> execution_time],
                                    rt.session_id, now)
                /\ rt' = [rt EXCEPT !.execution_time = execution_time]
                /\ rpc' = "logged"
    /\ UNCHANGED <<vertex, probe, th, saves, now, agents, metadata, intent_mapping, tool_chains, store, result,
                   calls, pre, nReq, nSetup>>

\* the response dict is the one the last entry of the caller's log refers
\* to: what is assigned to it shows in the stored entry
SharedResponse(lg, user_id, response) ==
    LET entries == LogsOf(lg, user_id)
        n == Len(entries)
    IN  DictPut(lg, user_id,
                [entries EXCEPT ![n].details.response = response])

\* route, lines 130-133: the envelope's metadata, assigned key by key
RouteMetadata ==
    /\ rpc = "logged"
    /\ LET response == AddMetadata(rt.response, rt.execution_time,
                                   rt.session_id, rt.user_id)
       IN  /\ rt' = [rt EXCEPT !.response = response]
           /\ logs' = IF store.down THEN logs
                      ELSE SharedResponse(logs, rt.user_id, response)
    /\ rpc' = "routed"
    /\ UNCHANGED <<vertex, probe, th, saves, now, agents, metadata, intent_mapping, tool_chains, store, result,
                   calls, pre, nReq, nSetup>>

\* route returns to a direct caller
RouteReturn ==
    /\ rpc = "routed"
    /\ rt.via = "route"
    /\ result' = rt.response
    /\ rpc' = "returned"
    /\ UNCHANGED <<vertex, probe, th, saves, now, agents, metadata, intent_mapping, tool_chains, store, logs, rt,
                   calls, pre, nReq, nSetup>>

\* handle_message, lines 80-95: the exchange is stored, the response returned
HandleStore ==
    /\ rpc = "routed"
    /\ rt.via = "handle_message"
    /\ IF rt.hmsg.from_id.tag # "ok"
       THEN /\ result' = OrchestratorError("Orchestrator error", "AttributeError")
            /\ UNCHANGED store
       ELSE IF WriteRaises(store.fire /\ store.down)
       THEN /\ result' = OrchestratorError("Orchestrator error", "ServiceUnavailable")
            /\ UNCHANGED store
       ELSE /\ store' = AddConversationMessage(store, ExtractUserId(rt.hmsg.from_id.val),
                            [message |-> ToDict(rt.hmsg), response |-> rt.response], now)
            /\ result' = rt.response
    /\ rpc' = "returned"
    /\ UNCHANGED <<vertex, probe, th, saves, now, agents, metadata, intent_mapping, tool_chains, logs, rt,
                   calls, pre, nReq, nSetup>>

Next ==
    \/ \E r \in Registrations : Register(r[1], r[2], r[3])
    \/ \E name \in RegNames : Unregister(name)
    \/ \E w \in MappingWrites : AddIntentMapping(w[1], w[2])
    \/ \E w \in ChainWrites : AddToolChain(w[1], w[2])
    \/ \E w \in ContextWrites \cup StaleContextWrites : SetContext(w[1], w[2], w[3])
    \/ \E w \in SessionWrites : SaveSessionOp(w[1], w[2])
    \/ Tick
    \/ \E data \in Requests : RouteCall(data)
    \/ \E data \in Requests : HandleMessage(data)
    \/ HandleRoute
    \/ \E outcome \in {"return", "raise"} : InvokeSingleAgent(outcome)
    \/ \E outcome \in {"return", "raise"} : ToolChainStep(outcome)
    \/ RouteTail
    \/ RouteMetadata
    \/ RouteReturn
    \/ HandleStore

Spec == Init /\ [][Next]_vars

(* ------------------------------------------------------------------ *)
(* Session operations run by concurrent threads (memory.py)            *)
(* ------------------------------------------------------------------ *)
\* Two threads each run add_conversation_message or set_context for the same
\* caller; a thread switch can come between any two statements.
Threads == {1, 2}

SessUser == <<"a">>

\* the call thread t makes: its operation and arguments
ThreadCalls(t) ==
    {[op |-> "append", message |-> [text |-> <<"m", t>>], key |-> "", value |-> 0],
     [op |-> "set", message |-> EmptyDict, key |-> <<"k1", "k2">>[t], value |-> t]}

StartThread(call) ==
    [op |-> call.op, message |-> call.message, key |-> call.key, value |-> call.value,
     u |-> SessUser, pc |-> "get", ref |-> 0, seen |-> 0]

EmptyStore(f) ==
    [fire |-> f, mem |-> EmptyDict, heap |-> EmptyDict, fs |-> EmptyDict, down |-> FALSE,
     unread |-> FALSE]

\* the caller's document before the two calls: none, or one an earlier call left
StoredBefore ==
    {[context |-> [a |-> 1],
      conversation_history |-> <<[text |-> <<"m", 0>>, timestamp |-> 0]>>,
      last_updated |-> 0],
     [context |-> [a |-> 1], last_updated |-> 0]}

SessStores ==
    {EmptyStore(f) : f \in BOOLEAN}
    \cup {SaveSessionCall(EmptyStore(f), SessUser, d) : f \in BOOLEAN, d \in StoredBefore}

InitSess ==
    /\ now = 0
    /\ agents = << >>
    /\ metadata = << >>
    /\ intent_mapping = DefaultIntentMapping
    /\ tool_chains = DefaultToolChains
    /\ store \in SessStores
    /\ logs = EmptyDict
    /\ rpc = "idle"
    /\ rt = NoCall
    /\ result = NoResult
    /\ calls = << >>
    /\ pre = [logs |-> EmptyDict, sessions |-> EmptyDict]
    /\ nReq = 0
    /\ nSetup = 0
    /\ th \in {[t \in Threads |-> StartThread(IF t = 1 THEN c1 ELSE c2)] :
                 c1 \in ThreadCalls(1), c2 \in ThreadCalls(2)}
    /\ saves = << >>
    /\ probe = NoProbe
    /\ vertex = FALSE

routeVars == <<now, agents, metadata, intent_mapping, tool_chains, logs,
               rpc, rt, result, calls, pre, nReq, nSetup, probe, vertex>>

\* the session dicts the threads other than t still hold
HeldRefs(t) == {th[x].ref : x \in {y \in Threads \ {t} : th[y].pc \notin {"get", "done"}}}

\* session = self.get_session(user_id)
SessGet(t) ==
    /\ th[t].pc = "get"
    /\ th[t].op \in {"append", "set", "clear_context", "clear_history"}
    /\ LET g == GetSession(store, th[t].u)
       IN  /\ store' = g.st
           /\ th' = [th EXCEPT ![t].ref = g.ref,
                               ![t].pc = IF th[t].op \in {"append", "set"}
                                         THEN "ensure" ELSE "mutate",
                               ![t].seen = Len(saves)]
    /\ UNCHANGED <<routeVars, saves>>

\* if "conversation_history" not in session: ... / if "context" not in session: ...
SessEnsure(t) ==
    /\ th[t].pc = "ensure"
    /\ store' = IF th[t].op = "append"
                THEN EnsureItem(store, th[t].ref, "conversation_history", << >>)
                ELSE EnsureItem(store, th[t].ref, "context", EmptyDict)
    /\ th' = [th EXCEPT ![t].pc = "mutate"]
    /\ UNCHANGED <<routeVars, saves>>

\* session["conversation_history"].append(message) / session["context"][key] = value
SessMutate(t) ==
    /\ th[t].pc = "mutate"
    /\ store' = IF th[t].op = "append"
                THEN AppendHistory(store, th[t].ref, th[t].message, now)
                ELSE IF th[t].op = "set"
                THEN PutContext(store, th[t].ref, th[t].key, th[t].value)
                ELSE IF th[t].op = "clear_context"
                THEN SetItem(store, th[t].ref, "context", EmptyDict)
                ELSE SetItem(store, th[t].ref, "conversation_history", << >>)
    /\ th' = [th EXCEPT ![t].pc = "touch"]
    /\ UNCHANGED <<routeVars, saves>>

\* session["last_updated"] = ...
SessTouch(t) ==
    /\ th[t].pc = "touch"
    /\ store' = SetItem(store, th[t].ref, "last_updated", now)
    /\ th' = [th EXCEPT ![t].pc = "save"]
    /\ UNCHANGED <<routeVars, saves>>

\* self.save_session(user_id, session)
SessSave(t) ==
    /\ th[t].pc = "save"
    /\ store' = Collect(SaveSession(store, th[t].u, th[t].ref), HeldRefs(t))
    /\ th' = [th EXCEPT ![t].pc = "done"]
    /\ saves' = Append(saves, [t |-> t, doc |-> store.heap[th[t].ref]])
    /\ UNCHANGED routeVars

NextSess ==
    \/ \E t \in Threads : SessGet(t)
    \/ \E t \in Threads : SessEnsure(t)
    \/ \E t \in Threads : SessMutate(t)
    \/ \E t \in Threads : SessTouch(t)
    \/ \E t \in Threads : SessSave(t)

SpecSess == InitSess /\ [][NextSess]_vars

(* ------------------------------------------------------------------ *)
(* add_conversation_message called over and over for one caller        *)
(* ------------------------------------------------------------------ *)
\* a store in which the caller has no conversation history yet
HistStores ==
    {EmptyStore(f) : f \in BOOLEAN}
    \cup {SaveSessionCall(EmptyStore(f), SessUser, [context |-> [a |-> 1], last_updated |-> 0]) :
            f \in BOOLEAN}

\* the state of the components with no request, thread or probe under way
Quiet ==
    /\ now = 0
    /\ agents = << >>
    /\ metadata = << >>
    /\ intent_mapping = DefaultIntentMapping
    /\ tool_chains = DefaultToolChains
    /\ logs = EmptyDict
    /\ rpc = "idle"
    /\ rt = NoCall
    /\ result = NoResult
    /\ calls = << >>
    /\ nReq = 0
    /\ nSetup = 0
    /\ th = << >>
    /\ saves = << >>

InitHist ==
    /\ Quiet
    /\ vertex = FALSE
    /\ store \in HistStores
    /\ pre = [logs |-> logs, sessions |-> SessionDocs(store)]
    /\ probe = [kind |-> "append", n |-> 0]

\* the n-th call: add_conversation_message(user_id, {"text": n})
AppendMessage ==
    /\ probe.kind = "append"
    /\ probe.n < MaxAppends
    /\ store' = AddConversationMessage(store, SessUser, [text |-> probe.n + 1], now)
    /\ probe' = [probe EXCEPT !.n = @ + 1]
    /\ UNCHANGED <<now, agents, metadata, intent_mapping, tool_chains, logs, rpc, rt,
                   result, calls, pre, nReq, nSetup, th, saves, vertex>>

NextHist == AppendMessage

SpecHist == InitHist /\ [][NextHist]_vars

(* ------------------------------------------------------------------ *)
(* Single operations of the components, called on their own            *)
(* ------------------------------------------------------------------ *)
GateNames == {"p1", "fb", NoFormatName}

GateMessages == {Ok(TextHi), Ok(TextRain), NoFormatText}

InitOps ==
    /\ Quiet
    /\ vertex \in BOOLEAN
    /\ store = EmptyStore(FALSE)
    /\ pre = [logs |-> logs, sessions |-> EmptyDict]
    /\ probe = NoProbe

\* invoker.invoke(agent_name, message, context, agent_type)
CallInvoke ==
    /\ \E agent_name \in GateNames, message \in GateMessages,
          agent_type \in {"local", "vertex"} :
          probe' = [kind |-> "invoke", agent_name |-> agent_name, message |-> message,
                    agent_type |-> agent_type,
                    out |-> InvokerInvoke(agent_name, message, agent_type, vertex)]
    /\ UNCHANGED <<now, agents, metadata, intent_mapping, tool_chains, store, logs, rpc, rt,
                   result, calls, pre, nReq, nSetup, th, saves, vertex>>

\* invoker.invoke_with_fallback(agent_name, message, context, fallback_agent)
CallInvokeWithFallback ==
    /\ \E agent_name \in GateNames, message \in GateMessages,
          fallback_agent \in GateNames \cup {None} :
          probe' = [kind |-> "fallback", agent_name |-> agent_name, message |-> message,
                    fallback_agent |-> fallback_agent,
                    out |-> InvokeWithFallback(agent_name, message, fallback_agent, vertex)]
    /\ UNCHANGED <<now, agents, metadata, intent_mapping, tool_chains, store, logs, rpc, rt,
                   result, calls, pre, nReq, nSetup, th, saves, vertex>>

\* _select_agents(intent, context) inputs: intents, contexts, chain tables
\* (one with a chain added under the empty name), mappings and registries
SelectIntents == {"get_weather", "translate", "unheard_of"}

SelectContexts ==
    {EmptyDict,
     [tool_chain |-> "comprehensive_advice"],
     [tool_chain |-> "comprehensive_advice", b |-> 3],
     [tool_chain |-> "no_such_chain"],
     [tool_chain |-> ""]}

SelectChains ==
    {DefaultToolChains,
     DictPut(DefaultToolChains, "", <<[agent |-> "weather", purpose |-> "get_weather_data"]>>)}

SelectMappings ==
    {DefaultIntentMapping, DictPut(DefaultIntentMapping, "translate", <<"crop_advisor">>)}

SelectRegistries ==
    {[ag |-> << >>, md |-> << >>],
     [ag |-> RegisterAgents(RegisterAgents(<< >>, "weather", "h1"), "general_assistant", "h1"),
      md |-> RegisterMetadata(RegisterMetadata(<< >>, "weather", EmptyDict),
                              "general_assistant", EmptyDict)],
     [ag |-> RegisterAgents(<< >>, "crop_advisor", "h1"),
      md |-> RegisterMetadata(<< >>, "crop_advisor", [intents |-> <<"unheard_of">>])]}

\* router._select_agents(intent, context)
CallSelectAgents ==
    /\ \E intent \in SelectIntents, context \in SelectContexts, chains \in SelectChains,
          imap \in SelectMappings, reg \in SelectRegistries :
          probe' = [kind |-> "select", intent |-> intent, context |-> context,
                    chains |-> chains, imap |-> imap, reg |-> reg,
                    out |-> SelectAgents(intent, context, chains, imap, reg.ag, reg.md)]
    /\ UNCHANGED <<now, agents, metadata, intent_mapping, tool_chains, store, logs, rpc, rt,
                   result, calls, pre, nReq, nSetup, th, saves, vertex>>

\* message texts: with words of several keyword sets, in upper case, with a
\* keyword inside another word, with none
AnalyzeTexts ==
    {TextRain, TextHi, << >>,
     <<"C", "R", "O", "P", " ", "r", "a", "i", "n">>,
     <<"r", "a", "i", "n", " ", "c", "r", "o", "p">>,
     <<"s", "o", "i", "l", " ", "p", "e", "s", "t">>,
     <<"P", "H">>,
     <<"g", "r", "a", "p", "h">>,
     <<"s", "e", "l", "l", " ", "s", "o", "i", "l">>,
     <<"c", "o", "s", "t">>}

AnalyzeMessages ==
    {Message(Ok(from), Ok(i), Ok(x), Ok(c), Ok("s1")) :
        from \in {UserA, AgentB}, i \in {"", "translate", "get_weather"},
        x \in AnalyzeTexts, c \in {EmptyDict, [b |-> 3]}}
    \cup {[BaseMessage EXCEPT !.message = BadF(<< >>), !.intent = Ok("")]}

\* router._analyze_intent(message)
CallAnalyzeIntent ==
    /\ \E data \in AnalyzeMessages :
          LET m == FromDict(data, now)
          IN  probe' = [kind |-> "analyze", m |-> m,
                        raised |-> AnalyzeIntentRaises(m),
                        out |-> IF AnalyzeIntentRaises(m) THEN None ELSE AnalyzeIntent(m)]
    /\ UNCHANGED <<now, agents, metadata, intent_mapping, tool_chains, store, logs, rpc, rt,
                   result, calls, pre, nReq, nSetup, th, saves, vertex>>

\* ACPMessage.from_dict(data).is_valid()
CallIsValid ==
    /\ \E data \in Requests :
          probe' = [kind |-> "is_valid", data |-> data,
                    raised |-> FromDictRaises(data),
                    m |-> FromDict(data, now),
                    out |-> ~FromDictRaises(data) /\ IsValid(FromDict(data, now))]
    /\ UNCHANGED <<now, agents, metadata, intent_mapping, tool_chains, store, logs, rpc, rt,
                   result, calls, pre, nReq, nSetup, th, saves, vertex>>

\* messages whose context carries a plain dict, or an instance of a dataclass
AttachmentMessages ==
    {[BaseMessage EXCEPT !.context = Ok([b |-> 3, attachment |-> a])] :
        a \in {Plain([step_id |-> "s"]), Instance([step_id |-> "s"])}}

\* message.to_dict(), and ACPMessage.from_dict of the dict at a later time
CallRoundTrip ==
    /\ \E data \in Requests \cup AttachmentMessages, t1 \in 0..MaxTime, t2 \in 0..MaxTime :
          /\ ~FromDictRaises(data)
          /\ t1 <= t2
          /\ probe' = [kind |-> "round_trip", data |-> data, t1 |-> t1, t2 |-> t2,
                       m |-> FromDict(data, t1),
                       d |-> ToDict(FromDict(data, t1)),
                       back |-> FromDict(ToDict(FromDict(data, t1)), t2)]
    /\ UNCHANGED <<now, agents, metadata, intent_mapping, tool_chains, store, logs, rpc, rt,
                   result, calls, pre, nReq, nSetup, th, saves, vertex>>

NextOps ==
    \/ CallRoundTrip
    \/ CallInvoke
    \/ CallInvokeWithFallback
    \/ CallSelectAgents
    \/ CallAnalyzeIntent
    \/ CallIsValid

SpecOps == InitOps /\ [][NextOps]_vars

(* ------------------------------------------------------------------ *)
(* Registry operations called on their own                             *)
(* ------------------------------------------------------------------ *)
\* register(name, handler, metadata) calls, some with metadata that names
\* no field of AgentMetadata
RegisterCalls ==
    Registrations
    \cup {<<"weather", "h2", [is_active |-> FALSE, description |-> "d"]>>,
          <<"weather", "h1", [bogus |-> 1]>>,
          <<"crop_advisor", "p1", [name |-> "x"]>>}

InitReg ==
    /\ Quiet
    /\ vertex = FALSE
    /\ store = EmptyStore(FALSE)
    /\ pre = [logs |-> logs, sessions |-> EmptyDict]
    /\ probe = NoProbe

\* the names registered, in the order of the register calls that put them
\* there (a call for a name already there leaves its place)
RegOrder == IF "order" \in DOMAIN probe THEN probe.order ELSE << >>

\* registry.register(name, handler, metadata)
RegisterCall(reg) ==
    /\ agents' = RegisterAgents(agents, reg[1], reg[2])
    /\ metadata' = RegisterMetadata(metadata, reg[1], reg[3])
    /\ probe' = [kind |-> "register", name |-> reg[1], handler |-> reg[2],
                 metaIn |-> reg[3],
                 raised |-> MetaRaises(reg[3]),
                 was_registered |-> IsRegistered(agents, reg[1]),
                 was_active |-> IF OHas(metadata, reg[1])
                                THEN OGet(metadata, reg[1]).is_active ELSE TRUE,
                 count |-> Len(agents),
                 order |-> IF MetaRaises(reg[3]) \/ reg[1] \in SeqRange(RegOrder)
                           THEN RegOrder ELSE Append(RegOrder, reg[1])]
    /\ UNCHANGED <<now, intent_mapping, tool_chains, store, logs, rpc, rt,
                   result, calls, pre, nReq, nSetup, th, saves, vertex>>

MetadataUpdates ==
    {[is_active |-> FALSE], [is_active |-> TRUE, bogus |-> 1]}

ListTags == {"translate", "get_weather"}

\* registry.unregister(name); for a name in the handler table without
\* metadata the second del raises KeyError, the first having been done
CallUnregister ==
    /\ \E name \in RegNames :
          /\ agents' = UnregisterAgents(agents, name)
          /\ metadata' = UnregisterMetadata(agents, metadata, name)
          /\ probe' = [kind |-> "unregister", name |-> name,
                       out |-> OHas(agents, name),
                       raised |-> OHas(agents, name) /\ ~OHas(metadata, name),
                       order |-> SelectSeq(RegOrder, LAMBDA n : n # name)]
    /\ UNCHANGED <<now, intent_mapping, tool_chains, store, logs, rpc, rt,
                   result, calls, pre, nReq, nSetup, th, saves, vertex>>

\* registry.update_metadata(name, metadata)
CallUpdateMetadata ==
    /\ \E name \in RegNames, update \in MetadataUpdates :
          /\ metadata' = UpdateMetadata(metadata, name, update)
          /\ probe' = [kind |-> "update_metadata", name |-> name, update |-> update,
                       out |-> OHas(metadata, name), order |-> RegOrder]
    /\ UNCHANGED <<now, agents, intent_mapping, tool_chains, store, logs, rpc, rt,
                   result, calls, pre, nReq, nSetup, th, saves, vertex>>

\* registry.list_by_intent(intent)
CallListByIntent ==
    /\ \E tag \in ListTags :
          probe' = [kind |-> "list_by_intent", tag |-> tag,
                    out |-> ListByIntent(metadata, tag), order |-> RegOrder]
    /\ UNCHANGED <<now, agents, metadata, intent_mapping, tool_chains, store, logs, rpc, rt,
                   result, calls, pre, nReq, nSetup, th, saves, vertex>>

\* registry.list_by_capability(capability)
CallListByCapability ==
    /\ \E tag \in ListTags :
          probe' = [kind |-> "list_by_capability", tag |-> tag,
                    out |-> ListByCapability(metadata, tag), order |-> RegOrder]
    /\ UNCHANGED <<now, agents, metadata, intent_mapping, tool_chains, store, logs, rpc, rt,
                   result, calls, pre, nReq, nSetup, th, saves, vertex>>

CallRegister == \E reg \in RegisterCalls : RegisterCall(reg)

NextReg == CallRegister

\* the registry's lists read between registrations, updates and removals
ListRegistrations ==
    {<<"weather", "h1", [capabilities |-> <<"translate">>]>>,
     <<"crop_advisor", "h1", [intents |-> <<"translate">>, capabilities |-> <<"translate">>]>>,
     <<"general_assistant", "h1", [intents |-> <<"translate">>, is_active |-> FALSE]>>,
     <<"weather", "h1", [bogus |-> 1]>>}

\* registry.clear()
CallClear ==
    /\ agents' = << >>
    /\ metadata' = << >>
    /\ probe' = [kind |-> "clear", order |-> << >>]
    /\ UNCHANGED <<now, intent_mapping, tool_chains, store, logs, rpc, rt,
                   result, calls, pre, nReq, nSetup, th, saves, vertex>>

NextList ==
    \/ \E reg \in ListRegistrations : RegisterCall(reg)
    \/ CallClear
    \/ CallUnregister
    \/ CallUpdateMetadata
    \/ CallListByIntent
    \/ CallListByCapability

SpecReg == InitReg /\ [][NextReg]_vars

SpecList == InitReg /\ [][NextList]_vars

(* ------------------------------------------------------------------ *)
(* Session and log operations of two different callers                 *)
(* ------------------------------------------------------------------ *)
OtherUser == <<"b">>

FrameUsers == {SessUser, OtherUser}

\* the calls a thread makes for its caller: the six store operations and a
\* log append
FrameCalls(t) ==
    ThreadCalls(t)
    \cup {[op |-> o, message |-> EmptyDict, key |-> "", value |-> 0] :
            o \in {"clear_context", "clear_history", "delete", "log"}}
    \cup {[op |-> "save", message |-> [context |-> [c |-> t]], key |-> "", value |-> 0]}

StartThreadFor(u, call) == [StartThread(call) EXCEPT !.u = u]

\* the documents and logs the two callers start with
FrameStores ==
    {SaveSessionCall(SaveSessionCall(EmptyStore(f), SessUser, d), OtherUser, d) :
        f \in BOOLEAN, d \in StoredBefore}

FrameLogs ==
    {EmptyDict,
     Log(Log(EmptyDict, SessUser, "message_received", EmptyDict, "s1", 0),
         OtherUser, "message_received", EmptyDict, "s1", 0)}

InitFrame ==
    /\ now = 0
    /\ agents = << >>
    /\ metadata = << >>
    /\ intent_mapping = DefaultIntentMapping
    /\ tool_chains = DefaultToolChains
    /\ store \in FrameStores
    /\ logs \in FrameLogs
    /\ rpc = "idle"
    /\ rt = NoCall
    /\ result = NoResult
    /\ calls = << >>
    /\ pre = [logs |-> logs, sessions |-> SessionDocs(store)]
    /\ nReq = 0
    /\ nSetup = 0
    /\ th \in {[t \in Threads |->
                    IF t = 1 THEN StartThreadFor(SessUser, c1)
                    ELSE StartThreadFor(OtherUser, c2)] :
                 c1 \in FrameCalls(1), c2 \in FrameCalls(2)}
    /\ saves = << >>
    /\ probe = NoProbe
    /\ vertex = FALSE

\* delete_session(user_id)
SessDelete(t) ==
    /\ th[t].pc = "get"
    /\ th[t].op = "delete"
    /\ store' = Collect(DeleteSession(store, th[t].u), HeldRefs(t))
    /\ th' = [th EXCEPT ![t].pc = "done"]
    /\ UNCHANGED <<routeVars, saves>>

\* save_session(user_id, data) with a dict of the caller's
SessSaveData(t) ==
    /\ th[t].pc = "get"
    /\ th[t].op = "save"
    /\ LET r == NewRef(store.heap)
       IN  store' = Collect(SaveSession([store EXCEPT !.heap = DictPut(@, r, th[t].message)],
                                        th[t].u, r),
                            HeldRefs(t))
    /\ th' = [th EXCEPT ![t].pc = "done"]
    /\ UNCHANGED <<routeVars, saves>>

\* logger.log(user_id, step, details, session_id)
SessLog(t) ==
    /\ th[t].pc = "get"
    /\ th[t].op = "log"
    /\ logs' = Log(logs, th[t].u, "response_sent", EmptyDict, "s1", now)
    /\ th' = [th EXCEPT ![t].pc = "done"]
    /\ UNCHANGED <<now, agents, metadata, intent_mapping, tool_chains, store,
                   rpc, rt, result, calls, pre, nReq, nSetup, probe, saves, vertex>>

NextFrame ==
    \/ NextSess
    \/ \E t \in Threads : SessDelete(t)
    \/ \E t \in Threads : SessSaveData(t)
    \/ \E t \in Threads : SessLog(t)

SpecFrame == InitFrame /\ [][NextFrame]_vars

(* ------------------------------------------------------------------ *)
(* The reasoning log read back after route (logger.py)                 *)
(* ------------------------------------------------------------------ *)
LogUsers == {<<"a">>, OtherUser}
LogSessions == {"", "s1", "default"}
LogLimits == {0, 1, 2, 100}

\* the handlers registered and the messages routed before the log is read
LogRegistrations == {<<"weather", "h1", EmptyDict>>, <<"crop_advisor", "h1", EmptyDict>>}

LogRequests ==
    {BaseMessage,
     Message(Ok(AgentB), Ok("get_weather"), Ok(TextHi), Ok(EmptyDict), Ok("s1")),
     Message(Ok(UserA), Ok("get_weather"), Ok(TextHi),
             Ok([tool_chain |-> "comprehensive_advice"]), Ok("s1")),
     Message(Ok(UserA), Ok("get_weather"), Ok(TextHi), NoneF(EmptyDict), Ok("")),
     [BaseMessage EXCEPT !.to_id = Absent(BaseMessage.to_id.val)]}

InitLog ==
    /\ Init
    /\ vertex = FALSE
    /\ store = EmptyStore(FALSE)

\* log_reasoning_step called directly, before or after the routed message
CallLogReasoningStep ==
    /\ rpc \in {"idle", "returned"}
    /\ probe = NoProbe
    /\ \E user_id \in LogUsers, session_id \in {"", "s1"} :
          /\ \A i \in DOMAIN LogsOf(logs, user_id) :
                ~IsReasoningStepName(LogsOf(logs, user_id)[i].step)
          /\ logs' = LogReasoningStep(logs, user_id,
                        [step_id |-> "step1", step_type |-> "analysis",
                         description |-> "d", input_data |-> EmptyDict,
                         output_data |-> EmptyDict, metadata |-> EmptyDict],
                        session_id, now)
    /\ UNCHANGED <<now, agents, metadata, intent_mapping, tool_chains, store, rpc, rt,
                   result, calls, pre, nReq, nSetup, th, saves, vertex, probe>>

\* get_logs called once the routed message has returned; one read per run
CallGetLogs ==
    /\ rpc = "returned"
    /\ probe = NoProbe
    /\ \E user_id \in LogUsers, limit \in LogLimits, session_id \in LogSessions,
          given \in BOOLEAN :
          \* not given: the parameter's default None, which "" stands for
          /\ ~given => session_id = ""
          /\ probe' = [kind |-> "get_logs", user_id |-> user_id, limit |-> limit,
                       given |-> given, session_id |-> session_id, stored |-> logs,
                       out |-> GetLogs(logs, user_id, limit, session_id)]
          /\ logs' = GetLogsStored(logs, user_id, session_id)
    /\ UNCHANGED <<now, agents, metadata, intent_mapping, tool_chains, store, rpc, rt,
                   result, calls, pre, nReq, nSetup, th, saves, vertex>>

\* get_session_logs
CallGetSessionLogs ==
    /\ rpc = "returned"
    /\ probe = NoProbe
    /\ \E user_id \in LogUsers, session_id \in LogSessions :
          /\ probe' = [kind |-> "get_session_logs", user_id |-> user_id,
                       session_id |-> session_id, stored |-> logs,
                       out |-> GetSessionLogs(logs, user_id, session_id)]
          /\ logs' = GetLogsStored(logs, user_id, session_id)
    /\ UNCHANGED <<now, agents, metadata, intent_mapping, tool_chains, store, rpc, rt,
                   result, calls, pre, nReq, nSetup, th, saves, vertex>>

\* get_reasoning_trace
CallGetReasoningTrace ==
    /\ rpc = "returned"
    /\ probe = NoProbe
    /\ \E user_id \in LogUsers, session_id \in LogSessions :
          /\ probe' = [kind |-> "get_reasoning_trace", user_id |-> user_id,
                       session_id |-> session_id, stored |-> logs,
                       out |-> GetReasoningTrace(logs, user_id, session_id)]
          /\ logs' = GetLogsStored(logs, user_id, session_id)
    /\ UNCHANGED <<now, agents, metadata, intent_mapping, tool_chains, store, rpc, rt,
                   result, calls, pre, nReq, nSetup, th, saves, vertex>>

NextLog ==
    \/ \E r \in LogRegistrations : Register(r[1], r[2], r[3])
    \/ Tick
    \/ \E data \in LogRequests : RouteCall(data)
    \/ \E outcome \in {"return", "raise"} : InvokeSingleAgent(outcome)
    \/ \E outcome \in {"return", "raise"} : ToolChainStep(outcome)
    \/ RouteTail
    \/ RouteMetadata
    \/ RouteReturn
    \/ CallLogReasoningStep
    \/ CallGetLogs
    \/ CallGetSessionLogs
    \/ CallGetReasoningTrace

SpecLog == InitLog /\ [][NextLog]_vars

(* ------------------------------------------------------------------ *)
(* route and handle_message while Firestore refuses writes             *)
(* ------------------------------------------------------------------ *)
\* the session store and the reasoning log both use Firestore; a session
\* of the first caller was saved while it worked
InitFail ==
    /\ Quiet
    /\ vertex = FALSE
    /\ \E d \in BOOLEAN :
          store = [SaveSessionCall(EmptyStore(TRUE), <<"a">>,
                                   [context |-> [a |-> 1], last_updated |-> 0])
                   EXCEPT !.down = d]
    /\ pre = [logs |-> EmptyDict, sessions |-> EmptyDict]
    /\ probe = NoProbe

\* Firestore starts to refuse writes
Outage ==
    /\ ~store.down
    /\ store' = [store EXCEPT !.down = TRUE]
    /\ UNCHANGED <<now, agents, metadata, intent_mapping, tool_chains, logs, rpc, rt,
                   result, calls, pre, nReq, nSetup, th, saves, vertex, probe>>

NextFail ==
    \/ Outage
    \/ \E r \in LogRegistrations : Register(r[1], r[2], r[3])
    \/ Tick
    \/ \E data \in LogRequests : RouteCall(data)
    \/ \E data \in LogRequests : HandleMessage(data)
    \/ HandleRoute
    \/ \E outcome \in {"return", "raise"} : InvokeSingleAgent(outcome)
    \/ \E outcome \in {"return", "raise"} : ToolChainStep(outcome)
    \/ RouteTail
    \/ RouteMetadata
    \/ RouteReturn
    \/ HandleStore

SpecFail == InitFail /\ [][NextFail]_vars

(* ------------------------------------------------------------------ *)
(* route while another thread unregisters a handler                    *)
(* ------------------------------------------------------------------ *)
InitRace ==
    /\ Quiet
    /\ vertex = FALSE
    /\ store = EmptyStore(FALSE)
    /\ pre = [logs |-> EmptyDict, sessions |-> EmptyDict]
    /\ probe = NoProbe

\* registry.unregister(name) by another thread, once route has selected and
\* logged the selection: before the dispatch, or between two steps of a chain
RaceUnregister(name) ==
    /\ rpc \in {"single", "chain"}
    /\ probe = NoProbe
    /\ OHas(agents, name) /\ OHas(metadata, name)
    /\ agents' = UnregisterAgents(agents, name)
    /\ metadata' = UnregisterMetadata(agents, metadata, name)
    /\ probe' = [kind |-> "unregister", name |-> name, during |-> "dispatch", at |-> rt.i]
    /\ UNCHANGED <<now, intent_mapping, tool_chains, store, logs, rpc, rt,
                   result, calls, pre, nReq, nSetup, th, saves, vertex>>

\* the caller's log without its last entry
DropLast(lg, user_id) ==
    DictPut(lg, user_id, SubSeq(LogsOf(lg, user_id), 1, Len(LogsOf(lg, user_id)) - 1))

\* route, whose list_active() (line 109) is iterating over the metadata
\* table when another thread's unregister deletes from it: the iteration
\* raises RuntimeError, no selection is logged, and route's except clause
\* answers
RouteCallRaced(data, name) ==
    /\ rpc \in {"idle", "returned"}
    /\ nReq < MaxReq
    /\ probe = NoProbe
    /\ OHas(agents, name) /\ OHas(metadata, name)
    /\ LET h == RouteHead(data, "route", EmptyDict, logs, agents, metadata,
                          intent_mapping, tool_chains, now)
       IN  /\ h.rpc \in {"single", "chain"}
           /\ rt' = [h.rt EXCEPT !.response = RouteExcept("RuntimeError")]
           /\ logs' = DropLast(h.logs, h.rt.user_id)
           /\ rpc' = "routed"
    /\ agents' = UnregisterAgents(agents, name)
    /\ metadata' = UnregisterMetadata(agents, metadata, name)
    /\ probe' = [kind |-> "unregister", name |-> name, during |-> "list_active", at |-> 1]
    /\ result' = NoResult
    /\ calls' = << >>
    /\ pre' = Snapshot
    /\ nReq' = nReq + 1
    /\ UNCHANGED <<vertex, th, saves, now, intent_mapping, tool_chains, store, nSetup>>

NextRace ==
    \/ \E r \in LogRegistrations : Register(r[1], r[2], r[3])
    \/ Tick
    \/ \E data \in LogRequests : RouteCall(data)
    \/ \E data \in LogRequests, name \in RegNames : RouteCallRaced(data, name)
    \/ \E name \in RegNames : RaceUnregister(name)
    \/ \E outcome \in {"return", "raise"} : InvokeSingleAgent(outcome)
    \/ \E outcome \in {"return", "raise"} : ToolChainStep(outcome)
    \/ RouteTail
    \/ RouteMetadata
    \/ RouteReturn

SpecRace == InitRace /\ [][NextRace]_vars

(* ------------------------------------------------------------------ *)
(* The two session stores under the same calls (memory.py)             *)
(* ------------------------------------------------------------------ *)
\* The in-memory fallback lives in mem and heap, the Firestore collection in
\* fs; every call is made on both stores, one call at a time.
DocUsers == {SessUser, OtherUser}

\* documents a caller hands to save_session, and JSON texts to import_session
DocData ==
    {[context |-> [c |-> 3]],
     [context |-> [a |-> 1], conversation_history |-> << >>, last_updated |-> 0]}

DocTexts ==
    {[tag |-> "ok", val |-> [context |-> [c |-> 3], last_updated |-> 0]],
     [tag |-> "bad", val |-> EmptyDict]}

NoArg == [key |-> "", value |-> 0, data |-> [tag |-> "none", val |-> EmptyDict]]

DocCall(op, u, key, value, data) ==
    [op |-> op, u |-> u, key |-> key, value |-> value, data |-> data]

DocCalls ==
    {DocCall(op, u, "", 0, NoArg.data) :
        op \in {"clear_context", "clear_history", "delete_session"}, u \in DocUsers}
    \cup {DocCall("set_context", u, k, 7, NoArg.data) : u \in DocUsers, k \in {"a", "k"}}
    \cup {DocCall("add_conversation_message", u, "", 0,
                  [tag |-> "ok", val |-> [text |-> <<"m", 1>>]]) : u \in DocUsers}
    \cup {DocCall("save_session", u, "", 0, [tag |-> "ok", val |-> d]) :
            u \in DocUsers, d \in DocData}
    \cup {DocCall("import_session", u, "", 0, j) : u \in DocUsers, j \in DocTexts}

\* the session operation a call names, on the store st
ApplyCall(st, call, t) ==
    CASE call.op = "save_session" -> SaveSessionCall(st, call.u, call.data.val)
      [] call.op = "set_context" -> SetContextCall(st, call.u, call.key, call.value, t)
      [] call.op = "add_conversation_message" ->
            AddConversationMessage(st, call.u, call.data.val, t)
      [] call.op = "clear_context" -> ClearContext(st, call.u, t)
      [] call.op = "clear_history" -> ClearConversationHistory(st, call.u, t)
      [] call.op = "import_session" -> ImportSession(st, call.u, call.data)
      [] call.op = "delete_session" -> Collect(DeleteSession(st, call.u), {})

\* the store as the MemoryManager with _use_firestore = f has it
Backend(st, f) == [st EXCEPT !.fire = f]

\* the call made on the in-memory store and on the Firestore store
OnBoth(st, call, t) ==
    LET m == ApplyCall(Backend(st, FALSE), call, t)
        f == ApplyCall(Backend(st, TRUE), call, t)
    IN  [st EXCEPT !.mem = m.mem, !.heap = m.heap, !.fs = f.fs]

\* the two stores start empty or with the same document for one caller
DocStores ==
    {EmptyStore(FALSE)}
    \cup {OnBoth(EmptyStore(FALSE),
                 DocCall("save_session", SessUser, "", 0, [tag |-> "ok", val |-> d]), 0) :
            d \in StoredBefore}

InitDoc ==
    /\ Quiet
    /\ vertex = FALSE
    /\ store \in DocStores
    /\ pre = [logs |-> logs, sessions |-> EmptyDict]
    /\ probe = NoProbe

\* one session operation, run to its end
CallStore(call) ==
    /\ nSetup < MaxSetup
    /\ store' = OnBoth(store, call, now)
    /\ probe' = [kind |-> "store", call |-> call, before |-> store]
    /\ nSetup' = nSetup + 1
    /\ UNCHANGED <<now, agents, metadata, intent_mapping, tool_chains, logs, rpc, rt,
                   result, calls, pre, nReq, th, saves, vertex>>

\* time passes between two calls
ClockTick ==
    /\ now < MaxTime
    /\ now' = now + 1
    /\ UNCHANGED <<agents, metadata, intent_mapping, tool_chains, store, logs, rpc, rt,
                   result, calls, pre, nReq, nSetup, th, saves, vertex, probe>>

NextDoc ==
    \/ ClockTick
    \/ \E call \in DocCalls : CallStore(call)

SpecDoc == InitDoc /\ [][NextDoc]_vars

(* ------------------------------------------------------------------ *)
(* Session operations while Firestore reads fail (memory.py)           *)
(* ------------------------------------------------------------------ *)
\* doc_ref.get() starts to raise, or works again
ReadOutage ==
    /\ store' = [store EXCEPT !.unread = ~store.unread]
    /\ UNCHANGED <<now, agents, metadata, intent_mapping, tool_chains, logs, rpc, rt,
                   result, calls, pre, nReq, nSetup, th, saves, vertex, probe>>

NextRead ==
    \/ ReadOutage
    \/ ClockTick
    \/ \E call \in DocCalls : CallStore(call)

SpecRead == InitDoc /\ [][NextRead]_vars

(* ------------------------------------------------------------------ *)
(* Properties of route and handle_message                              *)
(* ------------------------------------------------------------------ *)
\* The validity invariant of an ACP record as the specification words it:
\* the four required fields are present, language is a string of length >= 2
\* (en-US when the key is left out), context is a mapping (or left out).
AcpInvariant(data) ==
    /\ \A f \in {"from_id", "to_id", "intent", "message"} :
           data[f].tag \notin {"absent", "none"}
    /\ \/ data.language.tag = "absent"
       \/ data.language.tag = "ok" /\ Len(data.language.val) >= 2
    /\ data.context.tag # "bad"

\* the entries the running (or last) call has added to a caller's log
NewLogs(user_id) ==
    SubSeq(LogsOf(logs, user_id), Len(LogsOf(pre.logs, user_id)) + 1,
           Len(LogsOf(logs, user_id)))

\* the caller's stored conversation history, now and when the call began
History(user_id) == HistoryOf(ReadSession(store, user_id))

PreHistory(user_id) ==
    IF user_id \in DOMAIN pre.sessions THEN HistoryOf(pre.sessions[user_id]) ELSE << >>

PreContext(user_id) ==
    IF user_id \in DOMAIN pre.sessions THEN ContextOf(pre.sessions[user_id]) ELSE EmptyDict

\* the request names a defined tool chain
ChainRequested ==
    /\ "tool_chain" \in DOMAIN rt.msg.context.val
    /\ rt.msg.context.val["tool_chain"] \in DOMAIN tool_chains

MetadataKeys == {"execution_time", "session_id", "user_id"}

\* C1: for a record that fails the ACP validity invariant, a direct call of
\* route ends at once in a failure envelope with success = FALSE and
\* agent = None, and up to its return no handler is invoked, no log entry is
\* appended and no session document changes.
C1_InvalidRejected ==
    (rt.via = "route" /\ rpc \notin {"idle", "returned"} /\ ~AcpInvariant(rt.data)) =>
        /\ rpc = "routed"
        /\ rt.response.success = FALSE
        /\ rt.response.agent = None
        /\ calls = << >>
        /\ logs = pre.logs
        /\ SessionDocs(store) = pre.sessions

\* C1 happens: route is about to return the rejection of a record whose
\* language tag is too short, with a handler registered and a session stored.
C1_Witness ==
    /\ rpc = "routed" /\ rt.via = "route"
    /\ ~AcpInvariant(rt.data)
    /\ rt.data.language.tag = "ok"
    /\ rt.response.success = FALSE
    /\ agents # << >>
    /\ pre.sessions # EmptyDict

\* C2: whatever the record and whatever the handlers do, what route returns
\* is an envelope, never an exception: it has success and response, and a
\* failure envelope has success = FALSE, an error text and the response text
\* made from it; and a call that has not returned can always take a step.
C2_NoExceptionEscapes ==
    /\ rpc = "routed" =>
        /\ "success" \in DOMAIN rt.response
        /\ "response" \in DOMAIN rt.response
        /\ rt.response.success \in BOOLEAN
        /\ rt.response.success = FALSE =>
            /\ "error" \in DOMAIN rt.response
            /\ rt.response.error.kind # ""
            /\ rt.response.response = [sorry |-> rt.response.error]
    /\ rpc = "single" => \A o \in {"return", "raise"} :
            (o = "raise" => HasInvoke(RegistryGet(agents, rt.selected[1])))
                => ENABLED InvokeSingleAgent(o)
    /\ rpc = "chain" => ENABLED ToolChainStep("return")
    /\ rpc = "finish" => ENABLED RouteTail
    /\ rpc = "logged" => ENABLED RouteMetadata

\* C2 happens: route is about to return the envelope of an exception it
\* caught after the message was logged (the text of a record with no intent
\* is no string).
C2_Witness ==
    /\ rpc = "routed"
    /\ rt.response.success = FALSE
    /\ rt.response.error.kind = "Routing error"
    /\ logs # pre.logs

\* C3: when the mapping of the resolved intent names only handlers that are
\* not registered (and no chain, no handler declaring the intent applies),
\* route invokes general_assistant if it is registered and returns a
\* no-handler-found failure if it is not.
C3_FallbackWhenMappedUnregistered ==
    (/\ rpc = "routed"
     /\ rt.intent # ""
     /\ ~ChainRequested
     /\ rt.intent \in DOMAIN intent_mapping
     /\ \A n \in SeqRange(intent_mapping[rt.intent]) : ~IsRegistered(agents, n)
     /\ ListByIntent(metadata, rt.intent) = << >>) =>
        IF IsRegistered(agents, "general_assistant")
        THEN /\ Len(calls) = 1
             /\ calls[1].agent = "general_assistant"
             /\ calls[1].outcome = "return" => rt.response.success = TRUE
        ELSE /\ rt.response.success = FALSE
             /\ rt.response.error.kind = "No agent found for intent"

\* C4: a chain of n >= 2 handlers invokes every step once, in order, whatever
\* fails: step_results has n entries in step order, with an error marker
\* exactly at the steps that raised and a result at the others, and the
\* envelope has success = TRUE and tool_chain = TRUE.
C4_ChainSurvivesFailures ==
    (rpc \in {"finish", "routed"} /\ Len(rt.selected) >= 2) =>
        LET n == Len(rt.selected)
            sr == rt.response.step_results
        IN  /\ Len(calls) = n
            /\ \A k \in 1..n : calls[k].agent = rt.selected[k]
            /\ Len(sr) = n
            /\ \A k \in 1..n :
                /\ sr[k].step = k
                /\ sr[k].agent = rt.selected[k]
                /\ ("error" \in DOMAIN sr[k]) <=> (calls[k].outcome = "raise")
                /\ ("result" \in DOMAIN sr[k]) <=> (calls[k].outcome = "return")
            /\ rt.response.success = TRUE
            /\ rt.response.tool_chain = TRUE

\* C4 happens: a three-step chain whose second step raised has run its third
\* step and is about to be returned.
C4_Witness ==
    /\ rpc = "routed"
    /\ Len(rt.selected) = 3
    /\ Len(calls) = 3
    /\ calls[1].outcome = "return"
    /\ calls[2].outcome = "raise"
    /\ calls[3].outcome = "return"
    /\ "error" \in DOMAIN rt.response.step_results[2]

\* C5 as stated: every chain step k is given previous_results equal to the
\* outcomes of steps 1..k-1, the empty list for the first step.
C5_PreviousResultsAtEveryStep ==
    Len(rt.selected) >= 2 =>
        \A k \in 1..Len(calls) :
            /\ "previous_results" \in DOMAIN calls[k].context
            /\ calls[k].context["previous_results"] = SubSeq(rt.chain_results, 1, k - 1)

\* C5 amended: chain steps run one after another in the declared order, and
\* every step k >= 2 is given previous_results equal to the outcomes of steps
\* 1..k-1 whatever the message or the stored context held; the first step is
\* given no injected list: its previous_results is the message context's, else
\* the stored context's, else the key is missing.
C5_PreviousResultsFromSecondStep ==
    Len(rt.selected) >= 2 =>
        /\ Len(calls) = Len(rt.chain_results)
        /\ rpc = "chain" => Len(calls) = rt.i - 1
        /\ Len(calls) <= Len(rt.selected)
        /\ \A k \in 1..Len(calls) :
            /\ calls[k].agent = rt.selected[k]
            /\ k >= 2 =>
                /\ "previous_results" \in DOMAIN calls[k].context
                /\ calls[k].context["previous_results"] = SubSeq(rt.chain_results, 1, k - 1)
            /\ k = 1 =>
                LET m == rt.msg.context.val
                    p == PreContext(rt.user_id)
                    c == calls[1].context
                IN  IF "previous_results" \in DOMAIN m
                    THEN /\ "previous_results" \in DOMAIN c
                         /\ c["previous_results"] = m["previous_results"]
                    ELSE IF "previous_results" \in DOMAIN p
                    THEN /\ "previous_results" \in DOMAIN c
                         /\ c["previous_results"] = p["previous_results"]
                    ELSE "previous_results" \notin DOMAIN c

\* C5 happens: the first step of a chain was given the list an earlier chain
\* left in the context, and the second step the outcome of the first.
C5_Witness ==
    /\ Len(rt.selected) >= 2
    /\ Len(calls) >= 2
    /\ "previous_results" \in DOMAIN calls[1].context
    /\ calls[1].context["previous_results"] = StaleResults
    /\ calls[2].context["previous_results"] = SubSeq(rt.chain_results, 1, 1)

\* C6: when the one selected handler raises, route has invoked it once and
\* nothing else, has appended exactly one "error" entry to the caller's log,
\* and returns a failure envelope whose error names that handler.
C6_SingleFailure ==
    (/\ rpc \in {"finish", "routed"}
     /\ Len(rt.selected) = 1
     /\ calls # << >>
     /\ calls[1].outcome = "raise") =>
        /\ Len(calls) = 1
        /\ calls[1].agent = rt.selected[1]
        /\ Cardinality({i \in DOMAIN NewLogs(rt.user_id) :
                            NewLogs(rt.user_id)[i].step = "error"}) = 1
        /\ rt.response.success = FALSE
        /\ rt.response.error.subject = rt.selected[1]
        /\ rt.response.agent = None

\* C6 happens: route is about to return the failure of the only handler it
\* selected, while a second handler is registered.
C6_Witness ==
    /\ rpc = "routed"
    /\ Len(rt.selected) = 1
    /\ Len(calls) = 1
    /\ calls[1].outcome = "raise"
    /\ rt.response.success = FALSE
    /\ Len(agents) = 2

C8_EveryEnvelopeHasMetadata ==
    rpc = "routed" => MetadataKeys \subseteq DOMAIN rt.response

\* C9: the context a handler is given is the stored context overlaid by the
\* message context (the message wins), with user_id set to the caller id
\* derived from from_id and timestamp to the time of the request (in a chain,
\* from the second step on, previous_results is the injected list instead).
C9_ContextOverlay ==
    \A k \in 1..Len(calls) :
        LET c == calls[k].context
            m == rt.msg.context.val
            p == PreContext(rt.user_id)
            injected == {"user_id", "timestamp"}
                        \cup (IF k >= 2 THEN {"previous_results"} ELSE {})
        IN  /\ DOMAIN c = DOMAIN p \cup DOMAIN m \cup injected
            /\ \A key \in DOMAIN c \ injected :
                   c[key] = IF key \in DOMAIN m THEN m[key] ELSE p[key]
            /\ c["user_id"] = ExtractUserId(rt.data.from_id.val)
            /\ c["timestamp"] \in rt.start_time..now

\* C9 happens: with {a: 1, b: 2} stored and {b: 3, c: 4} in the message, the
\* handler was given {a: 1, b: 3, c: 4} plus user_id and timestamp.
C9_Witness ==
    /\ Len(calls) = 1
    /\ calls[1].via = "handler"
    /\ PreContext(rt.user_id) = [a |-> 1, b |-> 2]
    /\ rt.msg.context.val = [b |-> 3, c |-> 4]
    /\ calls[1].context =
           DictPut(DictPut([a |-> 1, b |-> 3, c |-> 4], "user_id", rt.user_id),
                   "timestamp", calls[1].context["timestamp"])

(* ------------------------------------------------------------------ *)
(* Properties of concurrent session operations                         *)
(* ------------------------------------------------------------------ *)
BothDone == \A t \in Threads : th[t].pc = "done"

\* the update thread t's call makes is in the caller's stored document
UpdatePresent(t) ==
    LET doc == ReadSession(store, SessUser)
    IN  IF th[t].op = "append"
        THEN \E i \in DOMAIN HistoryOf(doc) : HistoryOf(doc)[i].text = th[t].message.text
        ELSE /\ th[t].key \in DOMAIN ContextOf(doc)
             /\ ContextOf(doc)[th[t].key] = th[t].value

\* C10: two session operations for one caller are not serialized, and the
\* later save wins.  When both have finished: the later saver's update is
\* stored; if the later saver read the session after the earlier save, both
\* updates are stored; but with in-memory storage, when the two worked on
\* separate session dicts, the earlier update is gone, and with Firestore,
\* when the later saver read before the earlier save and its document
\* carries conversation_history, an earlier append is gone.
C10_LastSaveWins ==
    BothDone =>
        LET first == saves[1].t
            last == saves[2].t
        IN  /\ Len(saves) = 2
            /\ UpdatePresent(last)
            /\ ~store.fire => ReadSession(store, SessUser) = saves[2].doc
            /\ th[last].seen >= 1 => UpdatePresent(first)
            /\ (~store.fire /\ th[1].ref # th[2].ref) => ~UpdatePresent(first)
            /\ (/\ store.fire
                /\ th[last].seen = 0
                /\ th[first].op = "append"
                /\ "conversation_history" \in DOMAIN saves[2].doc) => ~UpdatePresent(first)

\* C10 happens: both operations read the session before either saved, both
\* have finished, and the update of the one that saved first is missing from
\* the stored document.
C10_Witness ==
    /\ BothDone
    /\ \A t \in Threads : th[t].seen = 0
    /\ UpdatePresent(saves[2].t)
    /\ ~UpdatePresent(saves[1].t)

(* ------------------------------------------------------------------ *)
(* Properties of operations of different callers                       *)
(* ------------------------------------------------------------------ *)
\* C11: callers with different ids are independent: whatever the
\* interleaving, a step of a store operation or of a log append made for one
\* caller leaves every other caller's stored document (and whether there is
\* one) and every other caller's log as they were.
C11_CallersIndependent ==
    [][\A t \in Threads :
          th'[t] # th[t] =>
              \A v \in FrameUsers \ {th[t].u} :
                  /\ ReadSession(store', v) = ReadSession(store, v)
                  /\ (v \in DOMAIN SessionDocs(store')) <=> (v \in DOMAIN SessionDocs(store))
                  /\ LogsOf(logs', v) = LogsOf(logs, v)]_vars

\* C11 happens: the first caller's operation has finished and changed that
\* caller's document or log, the second caller's operation is under way, and
\* the second caller's document and log are the ones it started with.
C11_Witness ==
    /\ th[1].pc = "done"
    /\ th[2].pc \in {"mutate", "touch", "save"}
    /\ \/ ReadSession(store, SessUser) # pre.sessions[SessUser]
       \/ SessUser \notin DOMAIN SessionDocs(store)
       \/ LogsOf(logs, SessUser) # LogsOf(pre.logs, SessUser)
    /\ ReadSession(store, OtherUser) = pre.sessions[OtherUser]
    /\ LogsOf(logs, OtherUser) = LogsOf(pre.logs, OtherUser)

(* ------------------------------------------------------------------ *)
(* Properties of the conversation history cap                          *)
(* ------------------------------------------------------------------ *)
\* the texts of the stored conversation history, oldest first
StoredTexts ==
    LET h == HistoryOf(ReadSession(store, SessUser))
    IN  [i \in 1..Len(h) |-> h[i]["text"]]

\* C12: starting from an empty history, after n add_conversation_message
\* calls the stored conversation_history is exactly the last min(n, 100)
\* appended entries, in the order they were appended.
C12_HistoryIsLastHundred ==
    probe.kind = "append" =>
        LET m == IF probe.n < 100 THEN probe.n ELSE 100
        IN  StoredTexts = [i \in 1..m |-> probe.n - m + i]

\* C12 happens: 105 appends were made and the stored history is entries 6..105.
C12_Witness ==
    /\ probe.kind = "append"
    /\ probe.n = 105
    /\ Len(StoredTexts) = 100
    /\ StoredTexts[1] = 6
    /\ StoredTexts[100] = 105

(* ------------------------------------------------------------------ *)
(* Properties of the invocation gateway                                *)
(* ------------------------------------------------------------------ *)
\* the invocation of a handler by the gateway fails
InvocationFails(agent_name, message) == IsRaised(InvokeLocalAgent(agent_name, message))

\* C13: invoke_with_fallback never raises; when the primary invocation fails
\* and a fallback name is given whose invocation succeeds, the fallback's
\* result is returned; when both fail (or no fallback is given), an error
\* text describing the original failure is returned.
C13_FallbackOnFailure ==
    probe.kind = "fallback" =>
        /\ ~IsRaised(probe.out)
        /\ InvocationFails(probe.agent_name, probe.message) =>
              IF /\ probe.fallback_agent # None
                 /\ ~InvocationFails(probe.fallback_agent, probe.message)
              THEN probe.out = InvokeLocalAgent(probe.fallback_agent, probe.message)
              ELSE /\ "error" \in DOMAIN probe.out
                   /\ probe.out.error = FormatError

\* C14: when the remote backend cannot be reached, a route that went through
\* the gateway shows a handler invocation failure: the single-handler
\* envelope has success = FALSE, and every chain step that went through the
\* gateway is recorded with an error marker.
C14_BackendFailureSeen ==
    (/\ rpc \in {"finish", "routed"}
     /\ ~vertex
     /\ \E k \in DOMAIN calls : calls[k].via = "invoker") =>
        IF "tool_chain" \in DOMAIN rt.response
        THEN \A k \in DOMAIN calls :
                calls[k].via = "invoker" =>
                    /\ "error" \in DOMAIN rt.response.step_results[k]
                    /\ "result" \notin DOMAIN rt.response.step_results[k]
        ELSE rt.response.success = FALSE

(* ------------------------------------------------------------------ *)
(* Properties of the registry                                          *)
(* ------------------------------------------------------------------ *)
\* C15: register never fails, whatever the name, handler and metadata
\* mapping, and after it the name is registered with that handler and with
\* metadata built from the mapping.
C15_RegisterNeverFails ==
    probe.kind = "register" =>
        /\ ~probe.raised
        /\ RegistryGet(agents, probe.name) = probe.handler
        /\ OHas(metadata, probe.name)
        /\ OGet(metadata, probe.name) = AgentMetadata(probe.name, probe.metaIn)

\* C16: when register returns for a name that was registered already, get
\* returns the new handler, the metadata is the one built from the new
\* mapping alone (defaults for every field it does not set, is_active among
\* them), and the number of registered handlers is what it was.
C16_LastWriteWins ==
    (probe.kind = "register" /\ ~probe.raised /\ probe.was_registered) =>
        /\ RegistryGet(agents, probe.name) = probe.handler
        /\ OGet(metadata, probe.name) = AgentMetadata(probe.name, probe.metaIn)
        /\ OGet(metadata, probe.name).is_active =
              (IF "is_active" \in DOMAIN probe.metaIn THEN probe.metaIn["is_active"] ELSE TRUE)
        /\ Len(agents) = probe.count

\* C16 happens: a name registered as inactive with handler h2 was registered
\* again with handler p1 and no metadata, and is active again.
C16_Witness ==
    /\ probe.kind = "register"
    /\ ~probe.raised
    /\ probe.was_registered
    /\ ~probe.was_active
    /\ probe.handler = "p1"
    /\ probe.metaIn = EmptyDict
    /\ Len(agents) = 2
    /\ OGet(metadata, probe.name).is_active

(* ------------------------------------------------------------------ *)
(* Properties of handler selection and intent resolution               *)
(* ------------------------------------------------------------------ *)
\* the handler names of a chain of the table, in declared order
ChainNames(chains, name) == [i \in 1..Len(chains[name]) |-> chains[name][i].agent]

\* the context without its tool_chain entry
WithoutToolChain(context) == [k \in DOMAIN context \ {"tool_chain"} |-> context[k]]

\* C17 as stated: whenever the context's tool_chain names a chain of the
\* table, the selection is that chain's handler names in declared order.
C17_NamedChainSelected ==
    (/\ probe.kind = "select"
     /\ "tool_chain" \in DOMAIN probe.context
     /\ probe.context["tool_chain"] \in DOMAIN probe.chains) =>
        probe.out = ChainNames(probe.chains, probe.context["tool_chain"])

\* C17 amended: when the context's tool_chain is a non-empty name of a chain
\* of the table, the selection is that chain's handler names in declared
\* order, whatever the intent, the mapping and the registry; when it is
\* empty or names no chain of the table, the selection is the one made for
\* the same context without tool_chain.
C17_NonEmptyNamedChainSelected ==
    probe.kind = "select" =>
        IF /\ "tool_chain" \in DOMAIN probe.context
           /\ probe.context["tool_chain"] # ""
           /\ probe.context["tool_chain"] \in DOMAIN probe.chains
        THEN probe.out = ChainNames(probe.chains, probe.context["tool_chain"])
        ELSE probe.out = SelectAgents(probe.intent, WithoutToolChain(probe.context),
                                      probe.chains, probe.imap, probe.reg.ag, probe.reg.md)

\* C17 happens: a chain was requested by name for an intent that is mapped to
\* a registered handler, and the chain's three names were selected.
C17_Witness ==
    /\ probe.kind = "select"
    /\ probe.intent = "get_weather"
    /\ probe.context = [tool_chain |-> "comprehensive_advice", b |-> 3]
    /\ IsRegistered(probe.reg.ag, "weather")
    /\ probe.out = <<"weather", "crop_advisor", "pest_assistant">>

\* C18: for a message whose intent is not the empty string, the resolved
\* intent is that intent, whatever the text; a resolved intent that differs
\* from the message's intent is met only when that intent is empty.
C18_ExplicitIntentWins ==
    (probe.kind = "analyze" /\ ~probe.raised) =>
        /\ probe.m.intent.val # "" => probe.out = probe.m.intent.val
        /\ probe.out # probe.m.intent.val => probe.m.intent.val = ""

\* C18 happens: a message with the intent translate and a text with crop and
\* weather words was resolved to translate.
C18_Witness ==
    /\ probe.kind = "analyze"
    /\ probe.m.intent.val = "translate"
    /\ probe.m.message.val = <<"C", "R", "O", "P", " ", "r", "a", "i", "n">>
    /\ probe.out = "translate"

\* the keyword sets in the order the specification gives, with their intents
KeywordOrder ==
    <<[words |-> CropWords, intent |-> "get_crop_advice"],
      [words |-> WeatherWords, intent |-> "get_weather"],
      [words |-> PestWords, intent |-> "pest_control"],
      [words |-> SoilWords, intent |-> "soil_analysis"],
      [words |-> PriceWords, intent |-> "market_prices"]>>

\* the sets of which a keyword occurs in the lower-cased text
Matching(text) ==
    {i \in DOMAIN KeywordOrder : \E w \in KeywordOrder[i].words : Contains(Lower(text), w)}

\* C19: with an empty intent, the resolved intent is that of the first
\* keyword set (crop, weather, pest, soil, price) with a keyword in the
\* lower-cased text, general_help when there is none: a function of the text.
C19_FirstKeywordSet ==
    (probe.kind = "analyze" /\ ~probe.raised /\ probe.m.intent.val = "") =>
        LET hits == Matching(probe.m.message.val)
        IN  IF hits = {}
            THEN probe.out = "general_help"
            ELSE probe.out =
                    KeywordOrder[CHOOSE i \in hits : \A j \in hits : i <= j].intent

\* C19 happens: a text with a weather word before an upper-case crop word
\* resolved to the crop intent.
C19_Witness ==
    /\ probe.kind = "analyze"
    /\ probe.m.intent.val = ""
    /\ probe.m.message.val = <<"r", "a", "i", "n", " ", "c", "r", "o", "p">>
    /\ Matching(probe.m.message.val) = {1, 2}
    /\ probe.out = "get_crop_advice"

\* C20: a constructed message is valid exactly when from_id, to_id, intent
\* and message are all present (an empty intent is present), language is a
\* string of at least two characters and context is a mapping.
C20_ValidIff ==
    (probe.kind = "is_valid" /\ ~probe.raised) =>
        (probe.out <=>
            /\ \A f \in {"from_id", "to_id", "intent", "message"} : probe.m[f].tag # "none"
            /\ probe.m.language.tag = "ok"
            /\ Len(probe.m.language.val) >= 2
            /\ probe.m.context.tag = "ok")

\* C20 happens: a message with the empty intent and no language given was
\* found valid.
C20_Witness ==
    /\ probe.kind = "is_valid"
    /\ ~probe.raised
    /\ probe.data.intent = Ok("")
    /\ probe.data.language.tag = "absent"
    /\ probe.m.language = Ok(EnUS)
    /\ probe.out

(* ------------------------------------------------------------------ *)
(* Properties of the reasoning log                                     *)
(* ------------------------------------------------------------------ *)
\* C21: the reasoning log is append-only: every entry stored for a caller is
\* still stored for that caller after any step, with every field as it was.
C21_AppendOnly ==
    [][\A u \in DOMAIN logs :
          /\ u \in DOMAIN logs'
          /\ \A i \in DOMAIN logs[u] : \E j \in DOMAIN logs'[u] : logs'[u][j] = logs[u][i]]_vars

\* the steps of the entries the running (or last) call has appended, in order
NewSteps(user_id) == [i \in DOMAIN NewLogs(user_id) |-> NewLogs(user_id)[i].step]

\* C22: a route call that succeeded has appended to the caller's log, in
\* this order and once each, message_received, intent_analysis,
\* agent_selection, then agent_invocation for a single handler or, for a
\* chain, one entry per step in step order (tool_chain_step, or error for a
\* step that raised), then response_sent.
C22_LogOrder ==
    (rpc = "routed" /\ rt.response.success = TRUE) =>
        LET n == Len(rt.selected)
            entries == NewLogs(rt.user_id)
        IN  IF n = 1
            THEN NewSteps(rt.user_id) =
                    <<"message_received", "intent_analysis", "agent_selection",
                      "agent_invocation", "response_sent">>
            ELSE /\ NewSteps(rt.user_id) =
                        <<"message_received", "intent_analysis", "agent_selection">>
                        \o [k \in 1..n |-> IF calls[k].outcome = "raise"
                                           THEN "error" ELSE "tool_chain_step"]
                        \o <<"response_sent">>
                 /\ \A k \in 1..n :
                        IF calls[k].outcome = "raise"
                        THEN entries[3 + k].details.context.step = k
                        ELSE entries[3 + k].details.step = k

\* C22 happens: a chain of three steps whose second step raised has been
\* routed, and the caller's log holds seven new entries.
C22_Witness ==
    /\ rpc = "routed"
    /\ rt.response.success = TRUE
    /\ Len(rt.selected) = 3
    /\ calls[2].outcome = "raise"
    /\ NewSteps(rt.user_id) =
          <<"message_received", "intent_analysis", "agent_selection",
            "tool_chain_step", "error", "tool_chain_step", "response_sent">>

\* the entries of a stored list that log_reasoning_step wrote
ReasoningEntries(entries) == SelectSeq(entries, LAMBDA log : IsReasoningStepName(log.step))

\* C23: once route has handled a message, the reasoning trace read for the
\* caller and a session holds, in order, one step for each intent_analysis,
\* agent_selection, agent_invocation and error entry that route logged for
\* that caller and session (no reasoning step having been logged directly).
C23_TraceOfRoute ==
    (/\ probe.kind = "get_reasoning_trace"
     /\ probe.user_id = rt.user_id
     /\ ReasoningEntries(LogsOf(probe.stored, probe.user_id)) = << >>) =>
        LET routed == SelectSeq(LogsOf(probe.stored, probe.user_id),
                        LAMBDA log : /\ log.session_id = probe.session_id
                                     /\ log.step \in {"intent_analysis", "agent_selection",
                                                      "agent_invocation", "error"})
        IN  /\ Len(probe.out) = Len(routed)
            /\ \A i \in DOMAIN routed : probe.out[i].timestamp = routed[i].timestamp

\* the entries get_logs has to choose from: the caller's, and of the session
\* asked for when one is
Candidates(filtered) ==
    IF filtered
    THEN SelectSeq(LogsOf(probe.stored, probe.user_id),
                   LAMBDA log : log.session_id = probe.session_id)
    ELSE LogsOf(probe.stored, probe.user_id)

\* what get_logs returned is made of stored entries of the caller, the later
\* timestamp first, and is no longer than the limit
NewestFirstWithinLimit ==
    /\ Len(probe.out) <= probe.limit
    /\ \A i \in DOMAIN probe.out :
          /\ probe.out[i].user_id = probe.user_id
          /\ \E j \in DOMAIN LogsOf(probe.stored, probe.user_id) :
                LogsOf(probe.stored, probe.user_id)[j] = probe.out[i]
    /\ \A i, j \in DOMAIN probe.out :
          i < j => probe.out[i].timestamp >= probe.out[j].timestamp

\* C27 as stated: get_logs returns at most limit entries of the caller, newest
\* first, and when a session id is given only entries carrying that id.
C27_GetLogs ==
    probe.kind = "get_logs" =>
        /\ NewestFirstWithinLimit
        /\ probe.given =>
              \A i \in DOMAIN probe.out : probe.out[i].session_id = probe.session_id

\* C27, amended: the filter applies when the session id given is not empty;
\* an empty one is treated as none given. What is returned are the newest
\* entries: as many as the limit allows, none older than one left out.
C27_GetLogsNonEmptySession ==
    probe.kind = "get_logs" =>
        LET filtered == probe.given /\ probe.session_id # ""
            candidates == Candidates(filtered)
        IN  /\ NewestFirstWithinLimit
            /\ filtered =>
                  \A i \in DOMAIN probe.out : probe.out[i].session_id = probe.session_id
            /\ Len(probe.out) = IF probe.limit < Len(candidates)
                                THEN probe.limit ELSE Len(candidates)
            /\ \A i \in DOMAIN probe.out :
                  Cardinality({j \in DOMAIN candidates :
                                  candidates[j].timestamp > probe.out[i].timestamp}) < i
            /\ (~filtered /\ probe.user_id \in DOMAIN probe.stored) =>
                  \A i \in DOMAIN probe.out : probe.out[i] = logs[probe.user_id][i]

\* C27 happens: two entries of session s1 were asked for from a caller who has
\* more of them and entries of other sessions too; the two returned differ in
\* age.
C27_Witness ==
    /\ probe.kind = "get_logs"
    /\ probe.given
    /\ probe.session_id = "s1"
    /\ probe.limit = 2
    /\ Len(Candidates(TRUE)) > 2
    /\ Len(Candidates(FALSE)) > Len(Candidates(TRUE))
    /\ Len(probe.out) = 2
    /\ probe.out[1].timestamp > probe.out[2].timestamp

\* the part of an envelope a caller acts on
Envelope(response) ==
    [k \in DOMAIN response \cap {"success", "agent", "response"} |-> response[k]]

\* C24: a Firestore write that fails, of a log entry or of a session, does
\* not reach the caller: the step that writes leaves the envelope as a write
\* that succeeds leaves it, route goes on to add the metadata, and
\* handle_message returns the envelope route gave it.
C24_WriteFailureSwallowed ==
    [][/\ (rpc = "finish" /\ rpc' # rpc) =>
              /\ rpc' = "logged"
              /\ rt'.response = rt.response
       /\ (rpc = "logged" /\ rpc' # rpc) =>
              /\ rpc' = "routed"
              /\ Envelope(rt'.response) = Envelope(rt.response)
       /\ (rpc = "routed" /\ rpc' # rpc /\ rt.via = "route") =>
              result' = rt.response
       /\ (rpc = "routed" /\ rpc' # rpc /\ rt.via = "handle_message"
              /\ rt.hmsg.from_id.tag = "ok") =>
              result' = rt.response
       /\ store.down => (store'.fs = store.fs /\ logs' = logs)]_vars

\* C24 happens: handle_message has returned a handler's reply although the
\* exchange could not be saved and no entry of the call was logged.
C24_Witness ==
    /\ rpc = "returned"
    /\ rt.via = "handle_message"
    /\ store.down
    /\ result = rt.response
    /\ result.success = TRUE
    /\ calls # << >>
    /\ LogsOf(logs, rt.user_id) = << >>
    /\ "conversation_history" \notin DOMAIN ReadSession(store, rt.user_id)

\* the names of a list that are registered now, in the list's order
RegisteredOf(names) == FilterSeq(names, {n \in SeqRange(names) : IsRegistered(agents, n)})

\* C25: whatever names the mapping and the chain table were given, a call
\* whose intent is mapped to a list, and which names no known chain, selects
\* exactly the names of that list that are registered when it selects, in
\* the list's order.
C25_RegisteredNamesOfMapping ==
    [][(/\ rpc \in {"idle", "returned", "call_route"}
        /\ rpc' \in {"single", "chain", "routed"}
        /\ rt'.intent # ""
        /\ rt'.intent \in DOMAIN intent_mapping
        /\ ~(/\ "tool_chain" \in DOMAIN rt'.msg.context.val
             /\ rt'.msg.context.val["tool_chain"] # ""
             /\ rt'.msg.context.val["tool_chain"] \in DOMAIN tool_chains)) =>
           rt'.selected = RegisteredOf(intent_mapping[rt'.intent])]_vars

\* C25 happens: get_weather was mapped to two names of which only the second
\* is registered, and a call for it was dispatched to that one alone.
C25_Witness ==
    /\ rpc = "returned"
    /\ rt.intent = "get_weather"
    /\ intent_mapping["get_weather"] = <<"weather", "crop_advisor">>
    /\ ~IsRegistered(agents, "weather")
    /\ rt.selected = <<"crop_advisor">>
    /\ Len(calls) = 1
    /\ calls[1].agent = "crop_advisor"

\* the names, in the order they were registered, of the handlers that are
\* registered and active and whose metadata holds the tag in the given field
ActiveWithTag(field, tag) ==
    SelectSeq(RegOrder, LAMBDA n :
        /\ IsRegistered(agents, n)
        /\ OHas(metadata, n)
        /\ OGet(metadata, n).is_active
        /\ tag \in SeqRange(OGet(metadata, n)[field]))

\* C26: list_by_intent and list_by_capability return exactly the names of
\* the handlers that are registered, active and carry the tag among their
\* intents (their capabilities), in the order they were registered.
C26_ListsActiveWithTag ==
    /\ probe.kind = "list_by_intent" => probe.out = ActiveWithTag("intents", probe.tag)
    /\ probe.kind = "list_by_capability" =>
          probe.out = ActiveWithTag("capabilities", probe.tag)

\* C26 happens: of the two handlers carrying a capability, the one
\* deactivated through update_metadata (it was registered active) is left out
\* of the list; the handler table holds the names in another order than they
\* were registered in.
C26_Witness ==
    /\ probe.kind = "list_by_capability"
    /\ probe.tag = "translate"
    /\ probe.out = <<"crop_advisor">>
    /\ RegOrder = <<"crop_advisor", "weather">>
    /\ OKeys(agents) = <<"weather", "crop_advisor">>
    /\ "translate" \in SeqRange(OGet(metadata, "weather").capabilities)
    /\ ~OGet(metadata, "weather").is_active

\* the message's context holds an instance of a dataclass
HoldsInstance(m) ==
    /\ m.context.tag = "ok"
    /\ ObjectKey \in DOMAIN m.context.val
    /\ m.context.val[ObjectKey].dataclass

C29_UnregisteredBeforeDispatch ==
    (/\ rpc \in {"routed", "returned"}
     /\ probe.kind = "unregister"
     /\ probe.name \in SeqRange(rt.selected)) =>
        /\ {"success", "response"} \subseteq DOMAIN rt.response
        /\ Len(rt.selected) = 1 =>
              /\ rt.response.success = FALSE
              /\ rt.response.error = ErrorMessage("Agent not found", probe.name, "")
              /\ calls = << >>
        /\ Len(rt.selected) > 1 =>
              \A k \in 1..Len(rt.selected) :
                  (rt.selected[k] = probe.name /\ k >= probe.at) =>
                      /\ Len(rt.chain_results) >= k
                      /\ rt.chain_results[k].agent = probe.name
                      /\ rt.chain_results[k].step = k
                      /\ calls[k].via = "invoker"

\* C30: no handler is dispatched to while its metadata's active flag is
\* false (the registry does not change while the call runs).
C30_NoInactiveDispatch ==
    \A k \in DOMAIN calls :
        (IsRegistered(agents, calls[k].agent) /\ OHas(metadata, calls[k].agent)) =>
            OGet(metadata, calls[k].agent).is_active

\* C31: the handler table and the metadata table hold the same names after
\* every register, unregister, update_metadata and clear call, those that
\* raised included.
C31_SameKeys ==
    SeqRange(OKeys(agents)) = SeqRange(OKeys(metadata))

\* is_valid() of the message built from the dict handle_message was given
PassesValidation(data) ==
    ~FromDictRaises(data) /\ IsValid(FromDict(data, now))

\* some caller's history is one entry longer than before the call and every
\* other session document is as it was
OneEntryAppended ==
    \E u \in DOMAIN SessionDocs(store) :
        /\ Len(History(u)) = Len(PreHistory(u)) + 1
        /\ \A v \in DOMAIN pre.sessions :
               v # u => ReadSession(store, v) = pre.sessions[v]

\* C32: handle_message appends exactly one history entry for every message
\* that passes validation, whatever envelope route returned, and leaves the
\* sessions unchanged when validation fails.
C32_OneEntryPerValidMessage ==
    (rpc = "returned" /\ rt.via = "handle_message") =>
        IF PassesValidation(rt.data)
        THEN OneEntryAppended
        ELSE SessionDocs(store) = pre.sessions

\* C32 amended: handle_message appends exactly one history entry for the
\* caller for every message that passes validation and whose from_id is a
\* string, also when route returned a failure envelope; it appends none and
\* leaves every session unchanged when validation fails or from_id is not a
\* string.
C32_OneEntryPerStringSender ==
    (rpc = "returned" /\ rt.via = "handle_message") =>
        IF PassesValidation(rt.data) /\ rt.data.from_id.tag = "ok"
        THEN LET u == ExtractUserId(rt.data.from_id.val)
             IN  /\ Len(History(u)) = Len(PreHistory(u)) + 1
                 /\ SubSeq(History(u), 1, Len(PreHistory(u))) = PreHistory(u)
                 /\ History(u)[Len(History(u))].response.success = rt.response.success
                 /\ \A v \in DOMAIN pre.sessions :
                        v # u => ReadSession(store, v) = pre.sessions[v]
        ELSE SessionDocs(store) = pre.sessions

\* C32 happens: route returned a failure envelope to handle_message and the
\* exchange is the entry appended to the caller's history.
C32_Witness ==
    /\ rpc = "returned" /\ rt.via = "handle_message"
    /\ PassesValidation(rt.data) /\ rt.data.from_id.tag = "ok"
    /\ result # NoResult
    /\ result.success = FALSE
    /\ Len(History(ExtractUserId(rt.data.from_id.val)))
           = Len(PreHistory(ExtractUserId(rt.data.from_id.val))) + 1

\* C33: the reasoning-log entries appended during one route call all carry
\* the session id that the returned envelope carries, whatever the value of
\* the message's session_id field.
C33_OneSessionId ==
    (rpc \in {"routed", "returned"} /\ "session_id" \in DOMAIN rt.response) =>
        \A i \in DOMAIN NewLogs(rt.user_id) :
            NewLogs(rt.user_id)[i].session_id = rt.response["session_id"]

\* C34: a get_logs call, whatever its limit and session filter, leaves the
\* stored per-caller log sequences as they were, contents and order.
C34_GetLogsReadsOnly ==
    [][(probe' # probe /\ probe'.kind = "get_logs") => logs' = logs]_vars

\* the caller's document in the store with _use_firestore = f, whether or
\* not a read would succeed now
Doc(st, f, u) == ReadSession([st EXCEPT !.fire = f, !.unread = FALSE], u)

\* the entries of old that the 100-entry cap leaves are the first entries of new
KeepsEarlier(old, new) ==
    LET kept == LastN(old, HistoryCap - 1)
    IN  /\ Len(new) >= Len(kept)
        /\ SubSeq(new, 1, Len(kept)) = kept

\* C35: session operations discard nothing they were not asked to change,
\* also when the read of the document fails and is swallowed: after
\* add_conversation_message the earlier history entries are still stored
\* and the context is unchanged; after set_context the history and every
\* other context key are unchanged.
C35_NothingDiscarded ==
    probe.kind = "store" =>
        \A f \in BOOLEAN :
            LET u == probe.call.u
                old == Doc(probe.before, f, u)
                new == Doc(store, f, u)
            IN  /\ probe.call.op = "add_conversation_message" =>
                       /\ KeepsEarlier(HistoryOf(old), HistoryOf(new))
                       /\ ContextOf(new) = ContextOf(old)
                /\ probe.call.op = "set_context" =>
                       /\ HistoryOf(new) = HistoryOf(old)
                       /\ \A k \in DOMAIN ContextOf(old) \ {probe.call.key} :
                              /\ k \in DOMAIN ContextOf(new)
                              /\ ContextOf(new)[k] = ContextOf(old)[k]

\* C36: after every sequence of save_session, set_context,
\* add_conversation_message, clear_context, clear_conversation_history,
\* import_session and delete_session calls, get_session returns the same
\* document for every caller from the in-memory store and from the
\* Firestore store.
C36_StoresEquivalent ==
    \A u \in DocUsers :
        ReadSession(Backend(store, FALSE), u) = ReadSession(Backend(store, TRUE), u)

\* get_conversation_history(user_id) with its default limit
GetConversationHistory(st, u) == LastN(HistoryOf(ReadSession(st, u)), 10)

\* C38: clear_context empties the caller's context and leaves the
\* conversation history unchanged, clear_conversation_history empties the
\* history and leaves the context unchanged, and after delete_session
\* get_session returns an empty document and the history read is empty, in
\* both stores, until the next write for that caller.
C38_ClearAndDelete ==
    /\ [](probe.kind = "store" =>
            \A f \in BOOLEAN :
                LET u == probe.call.u
                    old == ReadSession(Backend(probe.before, f), u)
                    new == ReadSession(Backend(store, f), u)
                IN  /\ probe.call.op = "clear_context" =>
                           /\ ContextOf(new) = EmptyDict
                           /\ "context" \in DOMAIN new
                           /\ HistoryOf(new) = HistoryOf(old)
                    /\ probe.call.op = "clear_history" =>
                           /\ HistoryOf(new) = << >>
                           /\ ContextOf(new) = ContextOf(old)
                    /\ probe.call.op = "delete_session" =>
                           /\ new = EmptyDict
                           /\ GetConversationHistory(Backend(store, f), u) = << >>)
    /\ [][\A u \in DocUsers, f \in BOOLEAN :
            (/\ ReadSession(Backend(store, f), u) = EmptyDict
             /\ ~(probe' # probe /\ probe'.call.u = u))
                => ReadSession(Backend(store', f), u) = EmptyDict]_vars

\* C38 happens: clear_context was called for a caller with a context and a
\* history, and delete_session for a caller with a document, in both stores.
C38_Witness ==
    /\ probe.kind = "store"
    /\ probe.call.op = "clear_context"
    /\ \A f \in BOOLEAN :
           /\ ContextOf(ReadSession(Backend(probe.before, f), probe.call.u)) # EmptyDict
           /\ HistoryOf(ReadSession(Backend(probe.before, f), probe.call.u)) # << >>
           /\ ContextOf(ReadSession(Backend(store, f), probe.call.u)) = EmptyDict

\* the persisted context mapping of a caller
StoredContextOf(st, u) == ContextOf(ReadSession(st, u))

\* C37: no step of route or handle_message changes a caller's persisted
\* context mapping, in single-handler and in chain dispatch; user_id,
\* timestamp and previous_results go to the per-call execution context only.
C37_PersistedContextKept ==
    /\ [][(nReq' # nReq \/ rpc \notin {"idle", "returned"}) =>
            \A u \in DOMAIN SessionDocs(store) \cup DOMAIN SessionDocs(store') :
                StoredContextOf(store', u) = StoredContextOf(store, u)]_vars
    /\ [](\A k \in 1..Len(calls) :
            /\ "user_id" \in DOMAIN calls[k].context
            /\ "user_id" \notin DOMAIN StoredContextOf(store, rt.user_id))

\* C37 happens: handle_message has returned from a chain dispatch whose
\* second step was given previous_results, and the caller's persisted
\* context is the one stored before the call.
C37_Witness ==
    /\ rpc = "returned" /\ rt.via = "handle_message"
    /\ Len(calls) >= 2
    /\ "previous_results" \in DOMAIN calls[2].context
    /\ PreContext(rt.user_id) = [a |-> 1, b |-> 2]
    /\ StoredContextOf(store, rt.user_id) = [a |-> 1, b |-> 2]
    /\ Len(History(rt.user_id)) = 1

====
